---- MODULE Spec2Model ----
(***************************************************************************)
(* Model of the dimidiumx client: SystemNavigator switching between the    *)
(* solar overview (SolarSystemRenderer) and the star detail view           *)
(* (StarRenderer), the browser's animation-frame queue, and the camera     *)
(* animations both views drive through requestAnimationFrame.              *)
(*                                                                         *)
(* Lengths are integers in hundredths of a scene unit.  `progress' values  *)
(* are IEEE-754 doubles in [0, 2), held exactly as <<hi, lo>> with value   *)
(* (hi * 2^30 + lo) * 2^-60.  A camera quantity over time is a Pose: the   *)
(* sequence of lerpVectors calls that produced it from an exact point.     *)
(* React commits a state update (render, effect cleanup, effect) in the    *)
(* same step as the handler that made it.  OrbitControls.update() and      *)
(* pointer drags are taken not to move the camera.                         *)
(***************************************************************************)
EXTENDS Integers, Sequences, FiniteSets, TLC

\* ----------------------------------------------------------------- bounds
MaxInputs == 3
MaxMidFlight == 1
PickInputs == 1
MaxPlanets == 3
MaxOrbits == 2
MaxPathFrames == 2
MaxSystems == 2
MaxEffects == 2
LiveInputs == 2

\* -------------------------------------------------------------- constants
Null == 0
NoPlanet == "none"
Systems == {1, 2}

\* ------------------------------------------------- IEEE double arithmetic
B30 == 2^30
Zero == <<0, 0>>
One == <<B30, 0>>
Step004 == <<42949672, 1030792152>>
Step160 == <<17895697, 71582788>>
Step002 == <<21474836, 515396076>>

FLess(a, b) == a[1] < b[1] \/ (a[1] = b[1] /\ a[2] < b[2])
FLeq(a, b) == a = b \/ FLess(a, b)

\* Spacing of doubles (in units of 2^-60) at the binade of a value whose
\* high word is hi.
Ulp(hi) ==
  IF hi >= B30 THEN 256
  ELSE IF hi >= 536870912 THEN 128
  ELSE IF hi >= 268435456 THEN 64
  ELSE IF hi >= 134217728 THEN 32
  ELSE IF hi >= 67108864 THEN 16
  ELSE IF hi >= 33554432 THEN 8
  ELSE IF hi >= 16777216 THEN 4
  ELSE 1

\* a + b in double precision: the exact sum, rounded to nearest, ties to even.
FAdd(a, b) ==
  LET lo0 == a[2] + b[2]
      hi == a[1] + b[1] + (lo0 \div B30)
      lo == lo0 % B30
      q == Ulp(hi)
      r == lo % q
      base == lo - r
      up == (2 * r > q) \/ (2 * r = q /\ (base \div q) % 2 = 1)
      lo2 == IF up THEN base + q ELSE base
  IN <<hi + (lo2 \div B30), lo2 % B30>>

\* ------------------------------------------------------- vectors and poses
VAdd(v, w) == <<v[1] + w[1], v[2] + w[2], v[3] + w[3]>>
Origin == <<0, 0, 0>>

At(v) == <<[to |-> v, a |-> Zero]>>

\* THREE.Vector3.lerpVectors(s, e, alpha) = s + (e - s) * alpha
lerpVectors(s, e, alpha) ==
  IF s = At(e) \/ alpha = One THEN At(e)
  ELSE IF alpha = Zero THEN s
  ELSE Append(s, [to |-> e, a |-> alpha])

\* ------------------------------------------------------------- scene data
\* systemMarkers[i].position, from scaleCoordinates(system.position, 5)
MarkerPos(i) == IF i = 1 THEN <<10000, 0, 0>> ELSE <<0, 5000, -10000>>

\* Planet meshes of a detail scene: name and mesh position.
StarPlanets ==
  { [name |-> "b", pos |-> <<5000, 0, 0>>],
    [name |-> "c", pos |-> <<0, 0, 10000>>] }

SolarInitialCameraPos == <<0, 20000, 40000>>
StarInitialCameraPos == <<0, 19800, 66000>>
ZoomOffset == <<5000, 2500, 5000>>

Max(a, b) == IF a >= b THEN a ELSE b

\* ------------------------------------------------------------------ state
VARIABLES
  currentView,        \* SystemNavigator: 'solar' | 'exoplanet'
  selectedSystem,     \* SystemNavigator: system index or Null
  focusedPlanet,      \* SolarSystemRenderer state
  isTransitioning,    \* SolarSystemRenderer state
  animationFrameRef,  \* SolarSystemRenderer ref: pending camera frame or Null
  mainAnimationId,    \* SolarSystemRenderer effect: handle of the render loop
  starFocusedPlanet,  \* StarRenderer state focusedPlanet
  req,                \* StarRenderer effect: handle of the render loop
  cameraRef,          \* scene whose camera and controls the refs point to
  mounted,            \* component instance currently mounted
  cams,               \* scene -> [pos, target]: camera.position, controls.target
  rafPending,         \* callbacks requested for the next animation frame
  rafRunning,         \* callbacks of the frame being run, not yet called
  onSystemClickLog,   \* calls of onSystemClick: system, caller and its state then
  lastInput,          \* the last user input that hit something: kind and argument
  superseded,         \* overview animations cancelled while pending (this overview)
  stale,              \* what ran on behalf of a torn-down scene or component
  inputs,             \* user inputs so far
  midFlight,          \* user inputs made while a camera animation was pending
  hoveredOrbit,       \* SolarSystemRenderer state: planet name or NoPlanet
  hoveredSystem,      \* SolarSystemRenderer state: system index or Null
  pointer,            \* the latest pointer event of the overview and its ray
  exoplanetSystems,   \* SystemNavigator state: the system records loaded
  planetsData,        \* SystemNavigator state: the planet records loaded
  dataLoads,          \* runs of loadData so far
  sceneObjects,       \* orbit lines and planet meshes of the detail scene
  orbitalPaths,       \* OrbitalPaths: its props, its scene and frame counter
  solarObjects,       \* planets, hitboxes, orbit lines and markers of the overview
  tickLog,            \* the work done so far by the callbacks of the frame
  sessionStorage,     \* the two items the upload page writes and loadData reads
  loading,            \* SystemNavigator: isLoading, where loadData stands or threw
  uploadPage          \* Upload: file, isProcessing, error, previewData, timers

vars == <<currentView, selectedSystem, focusedPlanet, isTransitioning,
          animationFrameRef, mainAnimationId, starFocusedPlanet, req, cameraRef,
          mounted, cams, rafPending, rafRunning, onSystemClickLog, lastInput,
          superseded, stale, inputs, midFlight,
          hoveredOrbit, hoveredSystem, pointer, exoplanetSystems, planetsData,
          dataLoads, sceneObjects,
          orbitalPaths, solarObjects, tickLog,
          sessionStorage, loading, uploadPage>>

navVars == <<currentView, selectedSystem>>
solarVars == <<focusedPlanet, isTransitioning, animationFrameRef, mainAnimationId>>
starVars == <<starFocusedPlanet, req>>
histVars == <<onSystemClickLog, stale>>
hoverVars == <<hoveredOrbit, hoveredSystem>>
pageVars == <<sessionStorage, loading, uploadPage>>
dataVars == <<exoplanetSystems, planetsData, dataLoads, pageVars>>

\* An item of sessionStorage is <<>> when the key is absent (getItem returns
\* null) and <<s>> when it holds the string s.
NoStorage == [uploadedExoplanetSystems |-> <<>>, uploadedPlanetsData |-> <<>>]

\* SystemNavigator once loadData has finished from the CSV file.
Loaded == [pc |-> "done", isLoading |-> FALSE, threw |-> "no", source |-> "csv"]

\* No Upload component: the page shown is not /upload.
NoUploadPage ==
  [open |-> FALSE, file |-> <<>>, isProcessing |-> FALSE, error |-> "null",
   previewData |-> <<>>, pc |-> "idle", reading |-> <<>>, uploads |-> 0,
   timers |-> 0]

\* The sessions in which the data is there and nothing was uploaded.
DataSettled ==
  /\ sessionStorage = NoStorage
  /\ loading = Loaded
  /\ uploadPage = NoUploadPage
sceneVars == <<dataVars, sceneObjects, orbitalPaths, solarObjects>>

\* useState(null) of hoveredOrbit and hoveredSystem: the values live as long
\* as the component instance; a new instance starts with both null.
HoverCarry ==
  /\ hoveredOrbit' = IF mounted' = mounted THEN hoveredOrbit ELSE NoPlanet
  /\ hoveredSystem' = IF mounted' = mounted THEN hoveredSystem ELSE Null

\* ------------------------------------------------- planets along their orbits
\* The overview's animate places every planet from Date.now():
\*   angle = Date.now() * speed,  position = orbitalRadius * (cos, 0, sin)
\* with speed = 0.0001 / orbitalPeriod, so that the planets' angles differ:
\* Phase has Jupiter a quarter turn ahead of Earth.
\* solarObjects.clock is the time read by the last animate call, in quarter
\* turns and modulo MaxClock + 1; Untracked where a session does not follow
\* the clock, the planets then being taken where the effect builds them,
\* at (orbitalRadius, 0, 0).
MaxClock == 1
Untracked == <<>>

orbitalRadius(name) == IF name = "Earth" THEN 4000 ELSE 20800
Phase(name) == IF name = "Earth" THEN 0 ELSE 1

OnOrbit(name, quarter) ==
  LET r == orbitalRadius(name)
      q == quarter % 4
  IN IF q = 0 THEN <<r, 0, 0>>
     ELSE IF q = 1 THEN <<0, 0, r>>
     ELSE IF q = 2 THEN <<0 - r, 0, 0>>
     ELSE <<0, 0, 0 - r>>

PlanetPosition(name, clock) ==
  IF clock = Untracked THEN <<orbitalRadius(name), 0, 0>>
  ELSE OnOrbit(name, clock[1] + Phase(name))

\* mesh.getWorldPosition(worldPos) of a planet or of its hitbox, which sits
\* at the planet's centre: a new vector holding the position now.
WorldPosition(name) == PlanetPosition(name, solarObjects.clock)

\* planet.position.x / .z = orbitalRadius * cos / sin (angle) in animate
MovePlanets(objects) ==
  IF objects.clock = Untracked THEN objects
  ELSE [objects EXCEPT !.clock = <<(@[1] + 1) % (MaxClock + 1)>>]

\* Solar-system planets a click can resolve to: name, world position at the
\* moment of the click (planets move along their orbits) and display radius.
SolarPicks ==
  { [name |-> "Earth", pos |-> WorldPosition("Earth"), radius |-> 15],
    [name |-> "Jupiter", pos |-> WorldPosition("Jupiter"), radius |-> 100] }

\* ------------------------------------------ planet records and detail scene
\* An optional numeric field of a record: <<>> is undefined, <<v>> the number
\* v.  Semi-major axes are in hundredths of an AU, eccentricities in
\* hundredths, arguments of periastron in degrees; the records of the model
\* have no inclination.
Undefined == <<>>
Num(v) == <<v>>
Truthy(f) == f # Undefined /\ f[1] # 0
OrDefault(f, d) == IF Truthy(f) THEN f[1] ELSE d

\* A CSV cell holding a number, or an empty one.
RawCells(values) == {Undefined} \cup {Num(v) : v \in values}
RawRows ==
  [pl_name : {"b"}, pl_orbsmax : RawCells({-100, 0, 100}),
   pl_orbeccen : RawCells({50, 100, 120}), pl_orblper : RawCells({90})]
RowLists == UNION {[1..n -> RawRows] : n \in 0..MaxPlanets}

\* parseFloat(cell) || undefined: an empty cell parses to NaN, and NaN and 0
\* are both falsy.
parseFloatOrUndefined(cell) == IF Truthy(cell) THEN cell ELSE Undefined

\* loadData: records uploaded earlier are taken from sessionStorage as
\* JSON.parse returns them; otherwise every row of the CSV file that has a
\* planet name and a host name becomes a record, whatever its numbers are.
\* The rows are those of the system selected later.
loadData(source, rows) ==
  IF source = "uploaded"
  THEN rows
  ELSE [i \in DOMAIN rows |->
          [pl_name |-> rows[i].pl_name,
           pl_orbsmax |-> parseFloatOrUndefined(rows[i].pl_orbsmax),
           pl_orbeccen |-> parseFloatOrUndefined(rows[i].pl_orbeccen),
           pl_orblper |-> parseFloatOrUndefined(rows[i].pl_orblper)]]

\* The records of the sessions in which the camera is followed: planets b
\* and c of either system.
Catalog ==
  << [pl_name |-> "b", pl_orbsmax |-> Num(50), pl_orbeccen |-> Undefined,
      pl_orblper |-> Undefined],
     [pl_name |-> "c", pl_orbsmax |-> Num(100), pl_orbeccen |-> Num(50),
      pl_orblper |-> Num(90)] >>

\* Points of the orbital frame are <<x, y, z>> in millionths of an AU.
\* ellipsePoint at a true anomaly of q quarter turns, from
\* r = a(1 - e^2) / (1 + e cos theta), x = r cos theta, y = r sin theta.
ellipsePoint(a, e, q) ==
  IF q = 0 THEN <<a * (100 - e) * 100, 0>>
  ELSE IF q = 1 THEN <<0, a * (10000 - e * e)>>
  ELSE IF q = 2 THEN <<0 - a * (100 + e) * 100, 0>>
  ELSE <<0, 0 - a * (10000 - e * e)>>

\* applyOrbitalRotation for an inclination of 0: the rotation by the
\* argument of periastron (0 when absent, or a quarter turn) about the
\* normal of the orbital plane.
applyOrbitalRotation(point, pl_orblper) ==
  IF OrDefault(pl_orblper, 0) = 90 THEN <<0 - point[2], point[1], 0>>
  ELSE <<point[1], point[2], 0>>

\* The eccentricity the orbit functions compute with: a value of 1 or more
\* that they clamp becomes 0.99.
EffectiveEccentricity(e, outcome) ==
  IF e >= 100 /\ outcome = "clamped" THEN 99 ELSE e

\* generate3DOrbit hands back the points of the curve, sampled at equal
\* steps of the true anomaly and closed by the first point again; of the
\* samples the model has those at the quarter turns.  For an eccentricity
\* of 1 or more it either clamps the value and samples the curve or rejects
\* it and hands back no point; which of the two is `outcome'.
generate3DOrbit(elements, outcome) ==
  IF elements.pl_orbeccen >= 100 /\ outcome = "rejected" THEN <<>>
  ELSE [k \in 1..5 |->
          applyOrbitalRotation(
            ellipsePoint(elements.pl_orbsmax,
                         EffectiveEccentricity(elements.pl_orbeccen, outcome),
                         (k - 1) % 4),
            elements.pl_orblper)]

\* getPeriapsisPosition: ellipsePoint at true anomaly 0, rotated like the
\* points of the curve.
getPeriapsisPosition(elements, outcome) ==
  applyOrbitalRotation(
    ellipsePoint(elements.pl_orbsmax,
                 EffectiveEccentricity(elements.pl_orbeccen, outcome), 0),
    elements.pl_orblper)

\* What generate3DOrbit may do for each record of a list.
OrbitOutcomes(planets) ==
  { o \in [DOMAIN planets -> {"sampled", "clamped", "rejected"}] :
      \A i \in DOMAIN planets :
        (o[i] = "sampled") <=> (OrDefault(planets[i].pl_orbeccen, 0) < 100) }

SkipsFalsyOnly(planet) == ~Truthy(planet.pl_orbsmax)

\* if (!planet.pl_orbsmax || planet.pl_orbsmax <= 0) return;
SkipsPlanet(planet) == ~Truthy(planet.pl_orbsmax) \/ planet.pl_orbsmax[1] <= 0

NoObjects == [scene |-> Null, starData |-> <<>>, orbits |-> <<>>, planetMeshes |-> <<>>]

\* A length of the orbital frame times AU_TO_SCENE_UNITS * SYSTEM_SCALE,
\* SYSTEM_SCALE being 0.5: millionths of an AU to millionths of a scene unit.
AU_TO_SCENE_UNITS == 100
ToSceneUnits(x) == (x * AU_TO_SCENE_UNITS) \div 2

\* new THREE.Vector3(p.x * ..., p.z * ..., p.y * ...) of orbitPoints
OrbitPoint(p) == <<ToSceneUnits(p[1]), ToSceneUnits(p[3]), ToSceneUnits(p[2])>>

UnswappedPosition(p) == <<ToSceneUnits(p[1]), ToSceneUnits(p[2]), ToSceneUnits(p[3])>>

\* planetMesh.position.set(periapsisPos.x * ..., periapsisPos.z * ...,
\* periapsisPos.y * ...)
MeshPosition(p) == <<ToSceneUnits(p[1]), ToSceneUnits(p[3]), ToSceneUnits(p[2])>>

\* planet.pl_name || 'Planet'
MeshName(pl_name) == IF pl_name = "" THEN "Planet" ELSE pl_name

\* The defaults of starData: radius and mass in hundredths of the Sun's,
\* temperature in K, luminosity in hundredths of the Sun's.
DefaultRadius == 100
DefaultTemperature == 5778
DefaultMass == 100
DefaultLuminosity == 0

OrElse(f, d) == IF Truthy(f) THEN f[1] ELSE d

\* f ?? d: d when the field is absent (undefined or null), else the field.
Coalesce(f, d) == IF f = Undefined THEN d ELSE f[1]

\* starData of StarRenderer, from the system it is given.
starData(system) ==
  [st_rad |-> Coalesce(system.st_rad, DefaultRadius),
   st_teff |-> Coalesce(system.st_teff, DefaultTemperature),
   st_mass |-> Coalesce(system.st_mass, DefaultMass),
   st_lum |-> Coalesce(system.st_lum, DefaultLuminosity)]

\* planets.forEach of the scene effect: for every record it does not skip,
\* in order, a Line through the points of generate3DOrbit and a mesh, both
\* added to the scene, the mesh also pushed on planetMeshes.  The star is
\* built from starData.
StarObjects(system, planets, outcome, scene) ==
  LET kept == SelectSeq([i \in DOMAIN planets |-> i],
                        LAMBDA i : ~SkipsPlanet(planets[i]))
      elements(i) == [pl_orbsmax |-> planets[i].pl_orbsmax[1],
                      pl_orbeccen |-> OrDefault(planets[i].pl_orbeccen, 0),
                      pl_orblper |-> planets[i].pl_orblper]
      orbit3D(i) == generate3DOrbit(elements(i), outcome[i])
      periapsisPos(i) == getPeriapsisPosition(elements(i), outcome[i])
  IN [scene |-> scene,
      starData |-> starData(system),
      orbits |-> [k \in DOMAIN kept |->
                    [planet |-> kept[k],
                     points |-> [n \in DOMAIN orbit3D(kept[k]) |->
                                   OrbitPoint(orbit3D(kept[k])[n])]]],
      planetMeshes |-> [k \in DOMAIN kept |->
                          [planet |-> kept[k],
                           name |-> MeshName(planets[kept[k]].pl_name),
                           position |-> MeshPosition(periapsisPos(kept[k]))]]]

\* ------------------------------------------------------------ OrbitalPaths
EccentricityCap == 95
PathSegments == 180
Min(a, b) == IF a <= b THEN a ELSE b

\* The component before its effect has run, for given props.
PathsProps(orbits, starRadius) ==
  [orbits |-> orbits, starRadius |-> starRadius, built |-> FALSE,
   ellipses |-> <<>>, frame |-> 0, effect |-> 0, unmounted |-> FALSE]
NoPaths == PathsProps(<<>>, 0)

\* theta = (i / n) * 2 * Math.PI and the point computed from Math.cos(theta)
\* and Math.sin(theta): `theta' counts n-ths of a turn, and `at' is the place
\* on the ellipse, which cos and sin, taken as the exact periodic functions,
\* fix by theta modulo a full turn.
SamplePoint(i, n) == [theta |-> i, at |-> i % n]

OpenLoop(n) == [k \in 1..n |-> SamplePoint(k - 1, n)]

\* for (let i = 0; i <= n; i++) points.push(...)
SampleLoop(n) == [k \in 1..(n + 1) |-> SamplePoint(k - 1, n)]

\* Math.min(orbit.pl_orbeccen || 0, 0.95), in hundredths
ClampEccentricity(pl_orbeccen) == Min(OrDefault(pl_orbeccen, 0), EccentricityCap)

\* orbits.forEach: the ellipses added to the scene, in order.  The
\* semi-minor axis is b = a * Math.sqrt(1 - ecc * ecc); bbOverAa is the
\* argument of the square root, times 10^4.
PathsEllipses(orbits, starRadius) ==
  LET kept == SelectSeq([i \in DOMAIN orbits |-> i],
                        LAMBDA i : ~SkipsPlanet(orbits[i]))
      a(i) == orbits[i].pl_orbsmax[1] * 3 + starRadius
      ecc(i) == ClampEccentricity(orbits[i].pl_orbeccen)
  IN [k \in DOMAIN kept |->
        [orbit |-> kept[k], a |-> a(kept[k]), ecc |-> ecc(kept[k]),
         bbOverAa |-> 10000 - ecc(kept[k]) * ecc(kept[k]),
         points |-> SampleLoop(PathSegments)]]

\* --------------------------------------------------- objects of the overview
\* realRadii, in km; a body the table does not name counts as 6371.
realRadii ==
  [n \in {"Sun", "Mercury", "Venus", "Earth", "Mars", "Jupiter", "Saturn",
          "Uranus", "Neptune"} |->
     IF n = "Sun" THEN 696000 ELSE IF n = "Mercury" THEN 2440
     ELSE IF n = "Venus" THEN 6052 ELSE IF n = "Earth" THEN 6371
     ELSE IF n = "Mars" THEN 3390 ELSE IF n = "Jupiter" THEN 69911
     ELSE IF n = "Saturn" THEN 58232 ELSE IF n = "Uranus" THEN 25362
     ELSE 24622]
planetRealRadius(name) == IF name \in DOMAIN realRadii THEN realRadii[name] ELSE 6371
sunRealRadius == realRadii["Sun"]
SUN_DISPLAY_RADIUS == 10
OrbitSegments == 128
PARSEC_SCALE == 5

\* Radii of the overview are in scene units times sunRealRadius.
\* Math.max(0.15, radiusRatio * SUN_DISPLAY_RADIUS)
displayRadius(realRadius) ==
  Max((15 * sunRealRadius) \div 100, realRadius * SUN_DISPLAY_RADIUS)

ShrunkHitbox(radius) == radius \div 3

\* Math.max(displayRadius * 3, 2.5)
hitboxRadius(radius) == Max(radius * 3, (25 * sunRealRadius) \div 10)

\* getSolarSystemBodies().slice(1): the planets, by name.
SolarBodies ==
  <<"Mercury", "Venus", "Earth", "Mars", "Jupiter", "Saturn", "Uranus", "Neptune">>

\* The position the data layer gives a system record, in hundredths of a
\* parsec: the Cartesian point of right ascension, declination (each 0 or a
\* quarter turn) and distance, or a fixed offset when the distance is 0 or
\* missing.
FallbackOffset == <<100, 100, 100>>
SystemPosition(ra, dec, sy_dist) ==
  IF ~Truthy(sy_dist) THEN FallbackOffset
  ELSE IF dec = 90 THEN <<0, 0, sy_dist[1]>>
  ELSE IF ra = 90 THEN <<0, sy_dist[1], 0>>
  ELSE <<sy_dist[1], 0, 0>>

\* scaleCoordinates: every coordinate times the scale.
scaleCoordinates(position, scale) ==
  <<position[1] * scale, position[2] * scale, position[3] * scale>>

\* The system records of the sessions in which the camera is followed.
SystemCatalog ==
  << [sy_dist |-> Num(2000), position |-> <<2000, 0, 0>>,
      st_rad |-> Num(120), st_teff |-> Num(4000), st_mass |-> Num(0),
      st_lum |-> Num(250)],
     [sy_dist |-> Num(2236), position |-> <<0, 1000, -2000>>,
      st_rad |-> Undefined, st_teff |-> Undefined, st_mass |-> Undefined,
      st_lum |-> Undefined] >>

MarkerUnplaced(scaledPos) == Origin

\* marker.position.set(scaledPos.x, scaledPos.y, scaledPos.z)
MarkerPosition(scaledPos) == scaledPos

\* userData.systemIndex of a marker: systemData.length when it is built,
\* the number of systems pushed before it.
IndexFromOne(pushed) == pushed + 1

MarkerIndex(pushed) == pushed

NoSolarObjects ==
  [scene |-> Null, planetMeshes |-> <<>>, invisibleHitboxes |-> <<>>,
   orbitLines |-> <<>>, systemMarkers |-> <<>>, systemData |-> <<>>,
   clock |-> Untracked]

\* planets.forEach and allExoplanetSystems.forEach of the overview's effect:
\* per planet a mesh, a hitbox added to the mesh as its child (so at the
\* mesh's centre) and an orbit line of OrbitSegments + 1 points; per system
\* a marker pushed to systemMarkers and the system pushed to systemData.  A
\* system is referred to by its place in allExoplanetSystems.
SolarObjects(bodies, systems, scene) ==
  [scene |-> scene,
   planetMeshes |->
     [k \in DOMAIN bodies |->
        [name |-> bodies[k],
         radius |-> displayRadius(planetRealRadius(bodies[k]))]],
   invisibleHitboxes |->
     [k \in DOMAIN bodies |->
        [name |-> bodies[k],
         radius |-> hitboxRadius(displayRadius(planetRealRadius(bodies[k]))),
         parentPlanet |-> k, position |-> Origin]],
   orbitLines |->
     [k \in DOMAIN bodies |->
        [planetName |-> bodies[k], points |-> SampleLoop(OrbitSegments)]],
   systemMarkers |->
     [k \in DOMAIN systems |->
        [systemIndex |-> MarkerIndex(k - 1),
         position |-> MarkerPosition(scaleCoordinates(systems[k].position,
                                                      PARSEC_SCALE))]],
   systemData |-> [k \in DOMAIN systems |-> k],
   clock |-> Untracked]

RerunsOnViewChange == currentView' # currentView

\* Does a render of SystemNavigator re-run the effect that calls loadData?
\* Its dependency list is [], so it runs after the first render only.
LoadDataReruns == FALSE

\* exoplanetSystems and planetsData are set by loadData alone, which reads
\* the same source every time it runs.
DataCarry ==
  /\ exoplanetSystems' = exoplanetSystems
  /\ planetsData' = planetsData
  /\ dataLoads' = IF LoadDataReruns THEN dataLoads + 1 ELSE dataLoads
  /\ UNCHANGED pageVars

\* The objects of the detail scene live as long as the scene: a new detail
\* scene gets its own, built from the records, and the overview has none.
SceneCarry ==
  /\ DataCarry
  /\ orbitalPaths' = orbitalPaths
  /\ solarObjects' =
       IF currentView' # "solar" THEN NoSolarObjects
       ELSE IF cameraRef' # cameraRef
       THEN SolarObjects(SolarBodies, exoplanetSystems, cameraRef')
       ELSE IF /\ rafRunning # <<>>
               /\ Head(rafRunning).fn = "animate"
               /\ Head(rafRunning).scene = cameraRef
       THEN MovePlanets(solarObjects)
       ELSE solarObjects
  /\ IF currentView' # "exoplanet" \/ selectedSystem' = Null
     THEN sceneObjects' = NoObjects
     ELSE IF cameraRef' = cameraRef THEN sceneObjects' = sceneObjects
     ELSE \E o \in OrbitOutcomes(planetsData) :
            sceneObjects' = StarObjects(exoplanetSystems[selectedSystem'], planetsData,
                                       o, cameraRef')

\* ------------------------------------------------- the work within a frame
\* What a callback does when a frame calls it, in the order of its
\* statements.  The overview's animate moves and turns the planets and the
\* sun and renders.  The detail view's animate sets the shader time
\* uniforms, picks the planet under the pointer for the hover label, turns
\* the star and the star field and renders.  A camera callback advances its
\* transition.  animate of OrbitalPaths moves its camera and renders.
Work(fn) ==
  IF fn = "animate" THEN <<"appearance", "render">>
  ELSE IF fn = "starAnimate" THEN <<"appearance", "pick", "appearance", "render">>
  ELSE IF fn = "pathsAnimate" THEN <<"camera", "render">>
  ELSE <<"advance">>

\* `progress += ...' of the camera callbacks
SolarStep == Step004
MarkerStep == Step160
StarStep == Step002
StepOf(fn) ==
  IF fn \in {"focus", "back"} THEN SolarStep
  ELSE IF fn = "marker" THEN MarkerStep
  ELSE IF fn \in {"starFocus", "starBack"} THEN StarStep
  ELSE Zero

\* The work of one call of cb, each piece with the scene it works on, the
\* function, and the value of the closure's progress after the piece.
WorkOf(cb) ==
  [k \in DOMAIN Work(cb.fn) |->
     [work |-> Work(cb.fn)[k], scene |-> cb.scene, fn |-> cb.fn,
      progress |-> FAdd(cb.progress, StepOf(cb.fn))]]

\* The browser calls the callbacks of a frame one after the other; a new
\* frame starts a new log.
TickCarry ==
  tickLog' = IF rafRunning = <<>>
             THEN (IF rafRunning' = <<>> THEN tickLog ELSE <<>>)
             ELSE tickLog \o WorkOf(Head(rafRunning))

\* What a step that handles no pointer event of the overview does to the
\* hover state, to the record of the latest pointer event, to the objects
\* of the detail scene and to the log of the frame.
PickCarry == HoverCarry /\ pointer' = pointer /\ SceneCarry /\ TickCarry

\* --------------------------------------------------- animation-frame queue
Range(q) == {q[i] : i \in DOMAIN q}
CameraFns == {"focus", "marker", "back", "starFocus", "starBack"}
IsCameraCallback(cb) == cb.fn \in CameraFns

\* A requested callback: its handle, the function, the scene and component
\* instance its closure captured, and the closure's transition variables.
Callback(id, fn, scene, inst, startPos, startTarget, endPos, endTarget, progress, sys) ==
  [id |-> id, fn |-> fn, scene |-> scene, inst |-> inst,
   startPos |-> startPos, startTarget |-> startTarget,
   endPos |-> endPos, endTarget |-> endTarget, progress |-> progress, sys |-> sys]

LoopCallback(id, fn, scene, inst) ==
  Callback(id, fn, scene, inst, At(Origin), At(Origin), Origin, Origin, Zero, Null)

CancelsNothing(q, h) == q

\* cancelAnimationFrame(h): the callback is dropped wherever it waits.
cancelAnimationFrame(q, h) == SelectSeq(q, LAMBDA cb : cb.id # h)

\* Handles are never reused while anything still holds them.
NewHandle(used) ==
  CHOOSE h \in 1..(Cardinality(used) + 1) :
    h \notin used /\ \A g \in 1..(h - 1) : g \in used

HandlesOf(q) == {cb.id : cb \in Range(q)}

NewId(used) ==
  CHOOSE s \in 1..(Cardinality(used) + 1) :
    s \notin used /\ \A g \in 1..(s - 1) : g \in used

\* Cameras still reachable: the live one and those captured by closures.
KeepCams(c, live, q1, q2) ==
  [s \in (DOMAIN c) \cap ({live} \cup {cb.scene : cb \in Range(q1) \cup Range(q2)})
     |-> c[s]]

InFlight == \E cb \in Range(rafPending) : IsCameraCallback(cb)

\* Pointer and button events are dispatched between animation frames.
BetweenFrames == rafRunning = <<>>

AcceptInput(kind, arg) ==
  /\ BetweenFrames
  /\ inputs < MaxInputs
  /\ InFlight => midFlight < MaxMidFlight
  /\ inputs' = inputs + 1
  /\ midFlight' = IF InFlight THEN midFlight + 1 ELSE midFlight
  /\ lastInput' = [kind |-> kind, arg |-> arg]

NoInput == [kind |-> "none", arg |-> "none"]
NoPointer == [event |-> "none", hits |-> <<>>, along |-> <<>>]
SystemName(i) == IF i = 1 THEN "system 1" ELSE "system 2"

\* The browser starts a frame: the callbacks requested so far are the ones
\* this frame calls, in request order.
FrameBegin ==
  /\ rafRunning = <<>>
  /\ rafPending # <<>>
  /\ rafRunning' = rafPending
  /\ rafPending' = <<>>
  /\ UNCHANGED <<navVars, solarVars, starVars, cameraRef, mounted, cams,
                 histVars, lastInput, superseded, inputs, midFlight>>
  /\ PickCarry

Pose(pos, target) == [pos |-> pos, target |-> target]

\* ---------------------------------------------------- SolarSystemRenderer
\* useEffect body: camera at initialCameraPosRef looking at the origin, and
\* the first call of animate().  Yields the new scene, cameras and queue.
SolarEffect(c, pend, run, inst, old) ==
  LET scene == NewId({cb.scene : cb \in Range(pend) \cup Range(run)} \cup {old})
      h == NewHandle(HandlesOf(pend) \cup HandlesOf(run))
  IN [scene |-> scene,
      cams |-> [s \in (DOMAIN c) \cup {scene} |->
                  IF s = scene THEN Pose(At(SolarInitialCameraPos), At(Origin))
                  ELSE c[s]],
      mainAnimationId |-> h,
      pend |-> Append(pend, LoopCallback(h, "animate", scene, inst))]

CleanupKeepsLoop(q, ref) ==
  IF ref # Null THEN cancelAnimationFrame(q, ref) ELSE q

\* The effect's cleanup: both cancelAnimationFrame calls.
SolarCleanup(q, ref) ==
  LET q1 == cancelAnimationFrame(q, mainAnimationId)
  IN IF ref # Null THEN cancelAnimationFrame(q1, ref) ELSE q1

KeepExisting(q) == q

\* `if (animationFrameRef.current !== null) cancelAnimationFrame(...)'
CancelExisting(q) ==
  IF animationFrameRef # Null
  THEN cancelAnimationFrame(q, animationFrameRef)
  ELSE q

Supersede ==
  superseded' = superseded \cup {cb.fn : cb \in Range(rafPending) \ Range(CancelExisting(rafPending))}

StartOfPending(scene) ==
  IF \E cb \in Range(rafPending) : IsCameraCallback(cb) /\ cb.scene = scene
  THEN LET cb == CHOOSE x \in Range(rafPending) :
                   IsCameraCallback(x) /\ x.scene = scene
       IN Pose(cb.startPos, cb.startTarget)
  ELSE cams[scene]

\* camera.position.clone(), controls.target.clone(): the pose a transition
\* takes as its start.
CurrentPose(scene) == cams[scene]

LeaveAtLastStep(cb) ==
  Pose(lerpVectors(cb.startPos, cb.endPos, cb.progress),
       lerpVectors(cb.startTarget, cb.endTarget, cb.progress))

\* camera.position.copy(end); controls.target.copy(target)
SnapPose(cb) == Pose(At(cb.endPos), At(cb.endTarget))

ContinuesOneMore(progress) == FLess(progress, FAdd(One, SolarStep))

\* `if (progress < 1)' of the overview's animateCamera
SolarContinues(progress) == FLess(progress, One)

NeverReleases(cb, pend, run, transitioning) ==
  LET progress == FAdd(cb.progress, SolarStep)
      h == NewHandle(HandlesOf(pend) \cup HandlesOf(run) \cup {mainAnimationId})
  IN IF SolarContinues(progress)
     THEN /\ cams' = [cams EXCEPT ![cb.scene] =
                        Pose(lerpVectors(cb.startPos, cb.endPos, progress),
                             lerpVectors(cb.startTarget, cb.endTarget, progress))]
          /\ animationFrameRef' = h
          /\ rafPending' = Append(pend, [cb EXCEPT !.id = h, !.progress = progress])
          /\ isTransitioning' = transitioning
     ELSE /\ cams' = [cams EXCEPT ![cb.scene] = SnapPose(cb)]
          /\ isTransitioning' = transitioning
          /\ animationFrameRef' = Null
          /\ rafPending' = pend

\* animateCamera of focusPlanet and of handleBackToSystem: one call, with
\* closure cb, the queue pend it requests into, and isTransitioning as the
\* caller left it.
SolarAnimateCamera(cb, pend, run, transitioning) ==
  LET progress == FAdd(cb.progress, SolarStep)
      h == NewHandle(HandlesOf(pend) \cup HandlesOf(run) \cup {mainAnimationId})
  IN IF SolarContinues(progress)
     THEN /\ cams' = [cams EXCEPT ![cb.scene] =
                        Pose(lerpVectors(cb.startPos, cb.endPos, progress),
                             lerpVectors(cb.startTarget, cb.endTarget, progress))]
          /\ animationFrameRef' = h
          /\ rafPending' = Append(pend, [cb EXCEPT !.id = h, !.progress = progress])
          /\ isTransitioning' = transitioning
     ELSE /\ cams' = [cams EXCEPT ![cb.scene] = SnapPose(cb)]
          /\ isTransitioning' = FALSE
          /\ animationFrameRef' = Null
          /\ rafPending' = pend

FixedDistance(planetRadius) == 500

FocusDistance(planetRadius) == Max(planetRadius * 8, 500)

focusPlanet(planetName, planetPosition, planetRadius) ==
  LET distance == FocusDistance(planetRadius)
      newCameraPos == VAdd(planetPosition, <<distance, distance \div 2, distance>>)
      cb == Callback(Null, "focus", cameraRef, mounted,
                     CurrentPose(cameraRef).pos, CurrentPose(cameraRef).target,
                     newCameraPos, planetPosition, Zero, Null)
  IN /\ focusedPlanet' = planetName
     /\ SolarAnimateCamera(cb, CancelExisting(rafPending), rafRunning, TRUE)
     /\ Supersede
     /\ UNCHANGED <<navVars, mainAnimationId, starVars, cameraRef, mounted,
                    rafRunning, onSystemClickLog, stale>>

\* ------------------------------------------------------------ StarRenderer
\* useEffect body: a new scene, camera and controls, the camera at the
\* pose stored in initialCameraPosRef, and the first call of animate().
StarEffect(c, pend, run, inst, old) ==
  LET scene == NewId({cb.scene : cb \in Range(pend) \cup Range(run)} \cup {old})
      h == NewHandle(HandlesOf(pend) \cup HandlesOf(run))
  IN [scene |-> scene,
      cams |-> [s \in (DOMAIN c) \cup {scene} |->
                  IF s = scene THEN Pose(At(StarInitialCameraPos), At(Origin))
                  ELSE c[s]],
      req |-> h,
      pend |-> Append(pend, LoopCallback(h, "starAnimate", scene, inst))]

\* The effect's cleanup: cancelAnimationFrame(req) is its only cancellation.
StarCleanup(q) == cancelAnimationFrame(q, req)

EffectRunsOnce == FALSE

\* Does a render with these dependencies re-run the scene effect?  starData
\* and planets are built anew by every render, so the dependency list
\* [starData, planets, system] differs from the previous one each time.
StarEffectReruns == TRUE

\* A state update of the mounted StarRenderer: React renders again unless
\* the value is unchanged, and a render re-runs the scene effect (cleanup of
\* the old scene, then construction of a new one).
StarSetFocusedPlanet(name, c, pend, run) ==
  IF name = starFocusedPlanet \/ ~StarEffectReruns
  THEN /\ starFocusedPlanet' = name
       /\ req' = req
       /\ cameraRef' = cameraRef
       /\ rafPending' = pend
       /\ rafRunning' = run
       /\ cams' = KeepCams(c, cameraRef, pend, run)
  ELSE LET e == StarEffect(c, StarCleanup(pend), StarCleanup(run), mounted, cameraRef)
       IN /\ starFocusedPlanet' = name
          /\ req' = e.req
          /\ cameraRef' = e.scene
          /\ rafPending' = e.pend
          /\ rafRunning' = StarCleanup(run)
          /\ cams' = KeepCams(e.cams, e.scene, e.pend, StarCleanup(run))

\* --------------------------------------------------------- SystemNavigator
KeepsSelectedSystem(v) == selectedSystem' = selectedSystem

\* setSelectedSystem, applied with the handler's other updates in one render.
setSelectedSystem(v) == selectedSystem' = v

\* What SystemNavigator's return statement renders once loading is over.
Rendered ==
  IF currentView = "solar" THEN "SolarSystemRenderer"
  ELSE IF selectedSystem # Null THEN "StarRenderer"
  ELSE "null"

\* handleSystemClick, with the render it causes: SolarSystemRenderer is
\* unmounted (its cleanup runs) and StarRenderer is mounted.
handleSystemClick(system, c, pend, run, ref) ==
  LET inst == NewId({cb.inst : cb \in Range(pend) \cup Range(run)} \cup {mounted})
      run1 == SolarCleanup(run, ref)
      e == StarEffect(c, SolarCleanup(pend, ref), run1, inst, cameraRef)
  IN /\ setSelectedSystem(system)
     /\ currentView' = "exoplanet"
     /\ focusedPlanet' = NoPlanet
     /\ isTransitioning' = FALSE
     /\ animationFrameRef' = Null
     /\ mainAnimationId' = Null
     /\ mounted' = inst
     /\ starFocusedPlanet' = NoPlanet
     /\ req' = e.req
     /\ cameraRef' = e.scene
     /\ rafPending' = e.pend
     /\ rafRunning' = run1
     /\ cams' = KeepCams(e.cams, e.scene, e.pend, run1)

FocusOfLastVisit ==
  IF onSystemClickLog # <<>>
  THEN onSystemClickLog[Len(onSystemClickLog)].focusedPlanet
  ELSE NoPlanet

\* useState<string | null>(null): focusedPlanet of a new overview instance.
InitialFocusedPlanet == NoPlanet

\* handleBackToSolar (the detail view's `Back to Solar System' button), with
\* the render it causes: StarRenderer is unmounted, SolarSystemRenderer
\* mounted afresh.
handleBackToSolar ==
  /\ currentView = "exoplanet"
  /\ AcceptInput("backToSolar", "none")
  /\ LET inst == NewId({cb.inst : cb \in Range(rafPending)} \cup {mounted}
                        \cup {onSystemClickLog[k].inst : k \in DOMAIN onSystemClickLog})
         e == SolarEffect(cams, StarCleanup(rafPending), <<>>, inst, cameraRef)
     IN /\ currentView' = "solar"
        /\ setSelectedSystem(Null)
        /\ starFocusedPlanet' = NoPlanet
        /\ req' = Null
        /\ mounted' = inst
        /\ focusedPlanet' = InitialFocusedPlanet
        /\ isTransitioning' = FALSE
        /\ animationFrameRef' = Null
        /\ mainAnimationId' = e.mainAnimationId
        /\ cameraRef' = e.scene
        /\ rafPending' = e.pend
        /\ cams' = KeepCams(e.cams, e.scene, e.pend, <<>>)
        /\ onSystemClickLog' = onSystemClickLog
        /\ superseded' = {}
        /\ UNCHANGED <<rafRunning, stale>>
  /\ PickCarry

\* ------------------------------------------- SolarSystemRenderer, continued
MarkerContinues(progress) == FLess(progress, One)

\* animateTransition of the system-marker branch of onClick: one call.
animateTransition(cb, pend, run, transitioning) ==
  LET progress == FAdd(cb.progress, MarkerStep)
      h == NewHandle(HandlesOf(pend) \cup HandlesOf(run) \cup {mainAnimationId})
  IN IF MarkerContinues(progress)
     THEN /\ cams' = [cams EXCEPT ![cb.scene] =
                        Pose(lerpVectors(cb.startPos, cb.endPos, progress),
                             lerpVectors(cb.startTarget, cb.endTarget, progress))]
          /\ animationFrameRef' = h
          /\ rafPending' = Append(pend, [cb EXCEPT !.id = h, !.progress = progress])
          /\ isTransitioning' = transitioning
          /\ onSystemClickLog' = onSystemClickLog
          /\ rafRunning' = run
          /\ UNCHANGED <<navVars, focusedPlanet, mainAnimationId, starVars,
                         cameraRef, mounted>>
     ELSE /\ handleSystemClick(cb.sys, cams, pend, run, Null)
          /\ onSystemClickLog' =
               Append(onSystemClickLog,
                      [sys |-> cb.sys, inst |-> cb.inst, camera |-> cams[cb.scene],
                       focusedPlanet |-> focusedPlanet,
                       isTransitioning |-> transitioning])

ClickMarkerKeepsFlag(marker) ==
  LET index == solarObjects.systemMarkers[marker].systemIndex
      targetSystem == solarObjects.systemData[index + 1]
      markerPos == solarObjects.systemMarkers[index + 1].position
      cb == Callback(Null, "marker", cameraRef, mounted,
                     CurrentPose(cameraRef).pos, CurrentPose(cameraRef).target,
                     VAdd(markerPos, ZoomOffset), markerPos, Zero, targetSystem)
  IN /\ index + 1 \in DOMAIN solarObjects.systemData
     /\ stale' = stale
     /\ Supersede
     /\ animateTransition(cb, CancelExisting(rafPending), rafRunning,
                          isTransitioning)

\* onClick, PRIORITY 3: a system marker is the nearest hit, the marker-th of
\* systemMarkers.  `index !== undefined && systemData[index]' guards the
\* branch; systemData is counted from 0 in the code and from 1 here.
SolarClickMarker(marker) ==
  LET index == solarObjects.systemMarkers[marker].systemIndex
      targetSystem == solarObjects.systemData[index + 1]
      markerPos == solarObjects.systemMarkers[index + 1].position
      cb == Callback(Null, "marker", cameraRef, mounted,
                     CurrentPose(cameraRef).pos, CurrentPose(cameraRef).target,
                     VAdd(markerPos, ZoomOffset), markerPos, Zero, targetSystem)
  IN /\ index + 1 \in DOMAIN solarObjects.systemData
     /\ stale' = stale
     /\ Supersede
     /\ animateTransition(cb, CancelExisting(rafPending), rafRunning, TRUE)

\* The click listener of the overview canvas.  The ray cast resolves to a
\* planet hitbox, else a planet mesh, else a system marker, else nothing.
SolarOnClick ==
  /\ currentView = "solar"
  /\ \/ \E p \in SolarPicks :
          AcceptInput("planet", p.name) /\ focusPlanet(p.name, p.pos, p.radius)
     \/ \E i \in DOMAIN solarObjects.systemMarkers :
          AcceptInput("marker", SystemName(i)) /\ SolarClickMarker(i)
     \/ BetweenFrames /\ UNCHANGED vars
  /\ PickCarry

\* The overview's `Back to System' button: rendered while a planet is
\* focused, disabled while isTransitioning.
SolarBackEnabled == focusedPlanet # NoPlanet /\ ~isTransitioning

\* handleBackToSystem of the overview, the button's click handler.
SolarHandleBackToSystem ==
  /\ currentView = "solar"
  /\ SolarBackEnabled
  /\ AcceptInput("back", "none")
  /\ LET cb == Callback(Null, "back", cameraRef, mounted,
                        CurrentPose(cameraRef).pos, CurrentPose(cameraRef).target,
                        SolarInitialCameraPos, Origin, Zero, Null)
     IN /\ focusedPlanet' = NoPlanet
        /\ SolarAnimateCamera(cb, CancelExisting(rafPending), rafRunning, TRUE)
        /\ Supersede
        /\ UNCHANGED <<navVars, mainAnimationId, starVars, cameraRef, mounted,
                       rafRunning, onSystemClickLog, stale>>
  /\ PickCarry

\* ------------------------------------------------- picking in the overview
\* A pointer ray is what it intersects, nearest to the camera first: planet
\* hitboxes, planet meshes, orbit lines and system markers.
Hit(kind, id) == [kind |-> kind, id |-> id]

\* What lies along a pointer ray, nearest first: each surface it crosses and
\* the face that surface turns to the ray.  A sphere shows its back face to
\* a ray that leaves it, so to a ray that starts inside it.
Cross(kind, id, face) == [kind |-> kind, id |-> id, face |-> face]
Front(kind, id) == Cross(kind, id, "front")
Back(kind, id) == Cross(kind, id, "back")

\* The hitbox is a child of the planet mesh at the mesh's centre: it encloses
\* the mesh when its radius is at least the mesh's.
Encloses(name) ==
  LET radius == displayRadius(planetRealRadius(name))
  IN hitboxRadius(radius) >= radius

CandidateLines ==
  { <<>>,
    <<Front("orbit", "Earth")>>,
    <<Front("hitbox", "Earth"), Front("orbit", "Earth")>>,
    <<Front("hitbox", "Earth"), Front("mesh", "Earth"), Front("orbit", "Earth")>>,
    <<Front("mesh", "Earth"), Back("hitbox", "Earth")>>,
    <<Front("marker", SystemName(1))>>,
    <<Front("marker", SystemName(1)), Front("hitbox", "Earth"),
      Front("mesh", "Earth")>>,
    <<Front("marker", SystemName(2)), Front("marker", SystemName(1))>>,
    <<Front("hitbox", "Jupiter"), Front("mesh", "Jupiter"),
      Front("hitbox", "Earth")>>,
    <<Front("orbit", "Earth"), Front("marker", SystemName(1))>>,
    <<Front("mesh", "Jupiter"), Back("hitbox", "Jupiter"),
      Front("marker", SystemName(2))>>,
    <<Front("mesh", "Jupiter")>>,
    <<Front("mesh", "Earth"), Front("orbit", "Earth")>> }

\* A ray that crosses a mesh crosses the hitbox that encloses it: the front
\* of the hitbox before the mesh, or its back after the mesh.
Lines ==
  { l \in CandidateLines :
      \A i \in DOMAIN l :
        (l[i].kind = "mesh" /\ Encloses(l[i].id)) =>
          \E j \in DOMAIN l :
            /\ l[j].kind = "hitbox" /\ l[j].id = l[i].id
            /\ \/ j < i /\ l[j].face = "front"
               \/ j > i /\ l[j].face = "back" }

\* raycaster.setFromCamera and the intersections of a ray: the materials are
\* front-sided, so a surface is hit where it turns its front to the ray.
Raycast(line) ==
  LET shown == SelectSeq(line, LAMBDA c : c.face = "front")
  IN [k \in 1..Len(shown) |-> Hit(shown[k].kind, shown[k].id)]

Rays == { Raycast(l) : l \in Lines }

FarthestFirst(hits, kind) ==
  LET near == SelectSeq(hits, LAMBDA h : h.kind = kind)
  IN [i \in 1..Len(near) |-> near[Len(near) + 1 - i]]

\* raycaster.intersectObjects(list): the hits on that list, nearest first.
intersectObjects(hits, kind) == SelectSeq(hits, LAMBDA h : h.kind = kind)

PlanetNamed(name) == CHOOSE p \in SolarPicks : p.name = name
SystemNamed(name) == CHOOSE i \in Systems : SystemName(i) = name

\* onClick for a ray with these hits: hitboxes, then meshes, then markers.
SolarOnClickAt(hits) ==
  LET hitboxIntersects == intersectObjects(hits, "hitbox")
      planetIntersects == intersectObjects(hits, "mesh")
      systemIntersects == intersectObjects(hits, "marker")
  IN IF hitboxIntersects # <<>>
     THEN LET p == PlanetNamed(hitboxIntersects[1].id)
          IN AcceptInput("planet", p.name) /\ focusPlanet(p.name, p.pos, p.radius)
     ELSE IF planetIntersects # <<>>
     THEN LET p == PlanetNamed(planetIntersects[1].id)
          IN AcceptInput("planet", p.name) /\ focusPlanet(p.name, p.pos, p.radius)
     ELSE IF systemIntersects # <<>>
     THEN LET index == SystemNamed(systemIntersects[1].id)
          IN AcceptInput("marker", SystemName(index)) /\ SolarClickMarker(index)
     ELSE /\ BetweenFrames
          /\ UNCHANGED <<navVars, solarVars, starVars, cameraRef, mounted, cams,
                         rafPending, rafRunning, histVars, lastInput, superseded,
                         inputs, midFlight>>

\* The click listener of the overview canvas, for the ray under the pointer.
SolarPointerClick ==
  /\ currentView = "solar"
  /\ \E line \in Lines :
       /\ SolarOnClickAt(Raycast(line))
       /\ pointer' = [event |-> "click", hits |-> Raycast(line), along |-> line]
  /\ HoverCarry
  /\ UNCHANGED <<sceneVars, tickLog>>

HoverOrbitsFirst(hits) ==
  LET orbitIntersects == SelectSeq(hits, LAMBDA h : h.kind = "orbit")
  IN IF orbitIntersects # <<>>
     THEN /\ hoveredOrbit' = orbitIntersects[1].id
          /\ UNCHANGED hoveredSystem
     ELSE UNCHANGED <<hoveredOrbit, hoveredSystem>>

\* onMouseMove for a ray with these hits.
SolarHover(hits) ==
  LET hitboxIntersects == intersectObjects(hits, "hitbox")
      orbitIntersects == intersectObjects(hits, "orbit")
      systemIntersects == intersectObjects(hits, "marker")
  IN IF hitboxIntersects # <<>>
     THEN UNCHANGED <<hoveredOrbit, hoveredSystem>>
     ELSE IF orbitIntersects # <<>>
     THEN /\ hoveredOrbit' = orbitIntersects[1].id
          /\ UNCHANGED hoveredSystem
     ELSE /\ hoveredOrbit' = NoPlanet
          /\ hoveredSystem' = IF systemIntersects # <<>>
                              THEN SystemNamed(systemIntersects[1].id)
                              ELSE Null

\* The mousemove listener of the overview canvas.
SolarOnMouseMove ==
  /\ currentView = "solar"
  /\ cameraRef # Null
  /\ BetweenFrames
  /\ \E line \in Lines :
       /\ SolarHover(Raycast(line))
       /\ pointer' = [event |-> "move", hits |-> Raycast(line), along |-> line]
  /\ UNCHANGED <<navVars, solarVars, starVars, cameraRef, mounted, cams,
                 rafPending, rafRunning, histVars, lastInput, superseded,
                 inputs, midFlight, sceneVars, tickLog>>

\* The callbacks of the overview, called by the frame in request order.
Running(fn) == rafRunning # <<>> /\ Head(rafRunning).fn = fn

Ran(cb) == IF cb.scene # cameraRef THEN stale \cup {cb.fn} ELSE stale

\* animate, the overview's render loop.
SolarAnimate ==
  /\ Running("animate")
  /\ LET cb == Head(rafRunning)
         run == Tail(rafRunning)
         h == NewHandle(HandlesOf(rafPending) \cup HandlesOf(run)
                          \cup {animationFrameRef})
     IN /\ rafRunning' = run
        /\ rafPending' = Append(rafPending, [cb EXCEPT !.id = h])
        /\ mainAnimationId' = IF cb.scene = cameraRef THEN h ELSE mainAnimationId
        /\ stale' = Ran(cb)
  /\ UNCHANGED <<navVars, focusedPlanet, isTransitioning, animationFrameRef,
                 starVars, cameraRef, mounted, cams, onSystemClickLog,
                 lastInput, superseded, inputs, midFlight>>
  /\ PickCarry

\* A frame calls animateCamera of focusPlanet.
SolarFocusFrame ==
  /\ Running("focus")
  /\ SolarAnimateCamera(Head(rafRunning), rafPending, Tail(rafRunning),
                        isTransitioning)
  /\ rafRunning' = Tail(rafRunning)
  /\ stale' = Ran(Head(rafRunning))
  /\ UNCHANGED <<navVars, focusedPlanet, mainAnimationId, starVars, cameraRef,
                 mounted, onSystemClickLog, lastInput, superseded, inputs, midFlight>>
  /\ PickCarry

\* A frame calls animateCamera of handleBackToSystem.
SolarBackFrame ==
  /\ Running("back")
  /\ SolarAnimateCamera(Head(rafRunning), rafPending, Tail(rafRunning),
                        isTransitioning)
  /\ rafRunning' = Tail(rafRunning)
  /\ stale' = Ran(Head(rafRunning))
  /\ UNCHANGED <<navVars, focusedPlanet, mainAnimationId, starVars, cameraRef,
                 mounted, onSystemClickLog, lastInput, superseded, inputs, midFlight>>
  /\ PickCarry

\* A frame calls animateTransition.
SolarMarkerFrame ==
  /\ Running("marker")
  /\ animateTransition(Head(rafRunning), rafPending, Tail(rafRunning),
                       isTransitioning)
  /\ stale' = Ran(Head(rafRunning))
  /\ UNCHANGED <<lastInput, superseded, inputs, midFlight>>
  /\ PickCarry

\* ------------------------------------------------- StarRenderer, continued
StarContinues(progress) == FLeq(progress, One)

\* The requestAnimationFrame call of the detail view's animateCamera
\* closures; the handle it returns is not kept.
StarRequest(pend, run, cb) ==
  Append(pend, [cb EXCEPT !.id = NewHandle(HandlesOf(pend) \cup HandlesOf(run)
                                              \cup {req})])

\* animateCamera of the detail view's onClick: one call.  Yields the
\* cameras and the queue after it.
StarFocusCall(cb, c, pend, run) ==
  LET progress == FAdd(cb.progress, StarStep)
  IN IF StarContinues(progress)
     THEN [cams |-> [c EXCEPT ![cb.scene] =
                       Pose(lerpVectors(cb.startPos, cb.endPos, progress),
                            lerpVectors(cb.startTarget, cb.endTarget, progress))],
           pend |-> StarRequest(pend, run, [cb EXCEPT !.progress = progress]),
           wrote |-> TRUE]
     ELSE [cams |-> c, pend |-> pend, wrote |-> FALSE]

\* The click listener of a detail scene's canvas: the ray cast resolves to
\* the nearest planet mesh or to nothing.
StarOnClick ==
  /\ currentView = "exoplanet"
  /\ \/ \E p \in StarPlanets :
          LET cb == Callback(Null, "starFocus", cameraRef, mounted,
                             CurrentPose(cameraRef).pos, CurrentPose(cameraRef).target,
                             VAdd(p.pos, ZoomOffset), p.pos, Zero, Null)
              r == StarFocusCall(cb, cams, rafPending, rafRunning)
          IN /\ AcceptInput("starPlanet", p.name)
             /\ StarSetFocusedPlanet(p.name, r.cams, r.pend, rafRunning)
             /\ UNCHANGED <<navVars, solarVars, mounted, histVars, superseded>>
     \/ BetweenFrames /\ UNCHANGED vars
  /\ PickCarry

\* The detail view's `Back to System' button: rendered while a planet is
\* focused, never disabled.
StarBackEnabled == starFocusedPlanet # NoPlanet

\* handleBackToSystem of the detail view: the refs are set once the scene
\* effect has run.
StarHandleBackToSystem ==
  /\ currentView = "exoplanet"
  /\ StarBackEnabled
  /\ AcceptInput("starBack", "none")
  /\ LET cb == Callback(Null, "starBack", cameraRef, mounted,
                        CurrentPose(cameraRef).pos, CurrentPose(cameraRef).target,
                        StarInitialCameraPos, Origin, Zero, Null)
         r == StarFocusCall(cb, cams, rafPending, rafRunning)
     IN IF r.wrote
        THEN /\ cams' = r.cams
             /\ rafPending' = r.pend
             /\ UNCHANGED <<starVars, cameraRef, rafRunning>>
        ELSE StarSetFocusedPlanet(NoPlanet, cams, rafPending, rafRunning)
  /\ UNCHANGED <<navVars, solarVars, mounted, histVars, superseded>>
  /\ PickCarry

\* animate, the detail view's render loop.
StarAnimate ==
  /\ Running("starAnimate")
  /\ LET cb == Head(rafRunning)
         run == Tail(rafRunning)
         h == NewHandle(HandlesOf(rafPending) \cup HandlesOf(run))
     IN /\ rafRunning' = run
        /\ rafPending' = Append(rafPending, [cb EXCEPT !.id = h])
        /\ req' = IF cb.scene = cameraRef THEN h ELSE req
        /\ stale' = Ran(cb)
  /\ UNCHANGED <<navVars, solarVars, starFocusedPlanet, cameraRef, mounted, cams,
                 onSystemClickLog, lastInput, superseded, inputs, midFlight>>
  /\ PickCarry

\* A frame calls animateCamera of the detail view's onClick.
StarFocusFrame ==
  /\ Running("starFocus")
  /\ LET cb == Head(rafRunning)
         r == StarFocusCall(cb, cams, rafPending, Tail(rafRunning))
     IN /\ rafRunning' = Tail(rafRunning)
        /\ rafPending' = r.pend
        /\ cams' = KeepCams(r.cams, cameraRef, r.pend, Tail(rafRunning))
        /\ stale' = IF r.wrote THEN Ran(cb) ELSE stale
  /\ UNCHANGED <<navVars, solarVars, starVars, cameraRef, mounted,
                 onSystemClickLog, lastInput, superseded, inputs, midFlight>>
  /\ PickCarry

\* A frame calls animateCamera of the detail view's handleBackToSystem.
StarBackFrame ==
  /\ Running("starBack")
  /\ LET cb == Head(rafRunning)
         r == StarFocusCall(cb, cams, rafPending, Tail(rafRunning))
     IN IF r.wrote
        THEN /\ rafRunning' = Tail(rafRunning)
             /\ rafPending' = r.pend
             /\ cams' = KeepCams(r.cams, cameraRef, r.pend, Tail(rafRunning))
             /\ stale' = Ran(cb)
             /\ UNCHANGED <<starVars, cameraRef>>
        ELSE IF cb.inst = mounted
        THEN /\ StarSetFocusedPlanet(NoPlanet, cams, rafPending, Tail(rafRunning))
             /\ stale' = stale
        ELSE /\ rafRunning' = Tail(rafRunning)
             /\ cams' = KeepCams(cams, cameraRef, rafPending, Tail(rafRunning))
             /\ stale' = stale \cup {"setFocusedPlanet"}
             /\ UNCHANGED <<starVars, cameraRef, rafPending>>
  /\ UNCHANGED <<navVars, solarVars, mounted, onSystemClickLog, lastInput,
                 superseded, inputs, midFlight>>
  /\ PickCarry

\* ------------------------------------------------------------ specification
Init ==
  LET e == SolarEffect(<<>>, <<>>, <<>>, 1, Null)
  IN /\ currentView = "solar"
     /\ selectedSystem = Null
     /\ focusedPlanet = NoPlanet
     /\ isTransitioning = FALSE
     /\ animationFrameRef = Null
     /\ mainAnimationId = e.mainAnimationId
     /\ starFocusedPlanet = NoPlanet
     /\ req = Null
     /\ cameraRef = e.scene
     /\ mounted = 1
     /\ cams = e.cams
     /\ rafPending = e.pend
     /\ rafRunning = <<>>
     /\ onSystemClickLog = <<>>
     /\ lastInput = NoInput
     /\ superseded = {}
     /\ stale = {}
     /\ inputs = 0
     /\ midFlight = 0
     /\ hoveredOrbit = NoPlanet
     /\ hoveredSystem = Null
     /\ pointer = NoPointer
     /\ exoplanetSystems = SystemCatalog
     /\ planetsData = Catalog
     /\ dataLoads = 1
     /\ DataSettled
     /\ sceneObjects = NoObjects
     /\ orbitalPaths = NoPaths
     /\ solarObjects = SolarObjects(SolarBodies, SystemCatalog, e.scene)
     /\ tickLog = <<>>

Next ==
  \/ FrameBegin
  \/ SolarOnClick
  \/ SolarHandleBackToSystem
  \/ SolarAnimate
  \/ SolarFocusFrame
  \/ SolarBackFrame
  \/ SolarMarkerFrame
  \/ StarOnClick
  \/ StarHandleBackToSystem
  \/ StarAnimate
  \/ StarFocusFrame
  \/ StarBackFrame
  \/ handleBackToSolar

Spec == Init /\ [][Next]_vars

\* The overview alone, up to the view switch of a completed marker
\* transition, for up to LiveInputs clicks and back actions, with every
\* animation frame that was requested run in the end.
NextOverview ==
  \/ FrameBegin
  \/ SolarOnClick /\ inputs < LiveInputs
  \/ SolarHandleBackToSystem /\ inputs < LiveInputs
  \/ SolarAnimate
  \/ SolarFocusFrame
  \/ SolarBackFrame
  \/ SolarMarkerFrame

FramesRun ==
  /\ WF_vars(FrameBegin)
  /\ WF_vars(SolarAnimate)
  /\ WF_vars(SolarFocusFrame)
  /\ WF_vars(SolarBackFrame)
  /\ WF_vars(SolarMarkerFrame)

SpecOverview == Init /\ [][NextOverview]_vars /\ FramesRun

\* The detail view as StarRenderer's construction leaves it, for either
\* system: SystemNavigator after handleSystemClick, the overview unmounted,
\* a fresh scene and render loop; history variables and input budget empty.
InitStar ==
  \E system \in Systems :
    LET e == StarEffect(<<>>, <<>>, <<>>, 2, 1)
    IN /\ currentView = "exoplanet"
       /\ selectedSystem = system
       /\ focusedPlanet = NoPlanet
       /\ isTransitioning = FALSE
       /\ animationFrameRef = Null
       /\ mainAnimationId = Null
       /\ starFocusedPlanet = NoPlanet
       /\ req = e.req
       /\ cameraRef = e.scene
       /\ mounted = 2
       /\ cams = e.cams
       /\ rafPending = e.pend
       /\ rafRunning = <<>>
       /\ onSystemClickLog = <<>>
       /\ lastInput = NoInput
       /\ superseded = {}
       /\ stale = {}
       /\ inputs = 0
       /\ midFlight = 0
       /\ hoveredOrbit = NoPlanet
       /\ hoveredSystem = Null
       /\ pointer = NoPointer
       /\ exoplanetSystems = SystemCatalog
       /\ planetsData = Catalog
       /\ dataLoads = 1
       /\ DataSettled
       /\ sceneObjects \in {StarObjects(SystemCatalog[system], Catalog, o, e.scene) :
                               o \in OrbitOutcomes(Catalog)}
       /\ orbitalPaths = NoPaths
       /\ solarObjects = NoSolarObjects
       /\ tickLog = <<>>

SpecStar == InitStar /\ [][Next]_vars

\* The overview under pointer events: a fresh overview in a session with
\* PickInputs inputs left, its pointer listeners and what they start.
InitPick ==
  LET e == SolarEffect(<<>>, <<>>, <<>>, 1, Null)
  IN /\ currentView = "solar"
     /\ selectedSystem = Null
     /\ focusedPlanet = NoPlanet
     /\ isTransitioning = FALSE
     /\ animationFrameRef = Null
     /\ mainAnimationId = e.mainAnimationId
     /\ starFocusedPlanet = NoPlanet
     /\ req = Null
     /\ cameraRef = e.scene
     /\ mounted = 1
     /\ cams = e.cams
     /\ rafPending = e.pend
     /\ rafRunning = <<>>
     /\ onSystemClickLog = <<>>
     /\ lastInput = NoInput
     /\ superseded = {}
     /\ stale = {}
     /\ inputs = MaxInputs - PickInputs
     /\ midFlight = 0
     /\ hoveredOrbit = NoPlanet
     /\ hoveredSystem = Null
     /\ pointer = NoPointer
     /\ exoplanetSystems = SystemCatalog
     /\ planetsData = Catalog
     /\ dataLoads = 1
     /\ DataSettled
     /\ sceneObjects = NoObjects
     /\ orbitalPaths = NoPaths
     /\ solarObjects = SolarObjects(SolarBodies, SystemCatalog, e.scene)
     /\ tickLog = <<>>

NextPick ==
  \/ SolarOnMouseMove
  \/ SolarPointerClick
  \/ FrameBegin
  \/ SolarAnimate
  \/ SolarFocusFrame
  \/ SolarMarkerFrame
  \/ StarAnimate

SpecPick == InitPick /\ [][NextPick]_vars

\* The detail view when SystemNavigator has rendered StarRenderer for the
\* selected system and its scene effect has not run yet, for the records
\* loadData yields from up to MaxPlanets rows; no user input follows.
InitScene ==
  \E system \in Systems, source \in {"csv", "uploaded"}, rows \in RowLists :
    /\ currentView = "exoplanet"
    /\ selectedSystem = system
    /\ focusedPlanet = NoPlanet
    /\ isTransitioning = FALSE
    /\ animationFrameRef = Null
    /\ mainAnimationId = Null
    /\ starFocusedPlanet = NoPlanet
    /\ req = Null
    /\ cameraRef = Null
    /\ mounted = 2
    /\ cams = <<>>
    /\ rafPending = <<>>
    /\ rafRunning = <<>>
    /\ onSystemClickLog = <<>>
    /\ lastInput = NoInput
    /\ superseded = {}
    /\ stale = {}
    /\ inputs = MaxInputs
    /\ midFlight = 0
    /\ hoveredOrbit = NoPlanet
    /\ hoveredSystem = Null
    /\ pointer = NoPointer
    /\ exoplanetSystems = SystemCatalog
    /\ planetsData = loadData(source, rows)
    /\ dataLoads = 1
    /\ DataSettled
    /\ sceneObjects = NoObjects
    /\ orbitalPaths = NoPaths
    /\ solarObjects = NoSolarObjects
    /\ tickLog = <<>>

\* The first run of StarRenderer's scene effect.  With no record for the
\* system the component returns its fallback before the effect.
StarMountEffect ==
  /\ currentView = "exoplanet"
  /\ cameraRef = Null
  /\ planetsData # <<>>
  /\ LET e == StarEffect(cams, rafPending, rafRunning, mounted, 1)
     IN /\ req' = e.req
        /\ cameraRef' = e.scene
        /\ cams' = e.cams
        /\ rafPending' = e.pend
        /\ \E o \in OrbitOutcomes(planetsData) :
             sceneObjects' = StarObjects(exoplanetSystems[selectedSystem], planetsData,
                                         o, e.scene)
  /\ UNCHANGED <<navVars, solarVars, starFocusedPlanet, mounted, rafRunning,
                 histVars, lastInput, superseded, inputs, midFlight, hoverVars,
                 pointer, dataVars, orbitalPaths, solarObjects, tickLog>>

NextScene ==
  \/ StarMountEffect
  \/ FrameBegin
  \/ StarAnimate

SpecScene == InitScene /\ [][NextScene]_vars

\* OrbitalPaths mounted on its own, for up to MaxOrbits orbit records and a
\* star radius (hundredths of a scene unit), its effect not run yet.
PathsOrbits ==
  [pl_orbsmax : RawCells({-100, 100, 300}),
   pl_orbeccen : RawCells({-30, 0, 50, 95, 100, 120})]

InitPaths ==
  \E n \in 0..MaxOrbits :
    \E orbits \in [1..n -> PathsOrbits], starRadius \in {100, 250} :
      /\ currentView = "solar"
      /\ selectedSystem = Null
      /\ focusedPlanet = NoPlanet
      /\ isTransitioning = FALSE
      /\ animationFrameRef = Null
      /\ mainAnimationId = Null
      /\ starFocusedPlanet = NoPlanet
      /\ req = Null
      /\ cameraRef = Null
      /\ mounted = Null
      /\ cams = <<>>
      /\ rafPending = <<>>
      /\ rafRunning = <<>>
      /\ onSystemClickLog = <<>>
      /\ lastInput = NoInput
      /\ superseded = {}
      /\ stale = {}
      /\ inputs = MaxInputs
      /\ midFlight = 0
      /\ hoveredOrbit = NoPlanet
      /\ hoveredSystem = Null
      /\ pointer = NoPointer
      /\ exoplanetSystems = SystemCatalog
      /\ planetsData = <<>>
      /\ dataLoads = 1
      /\ DataSettled
      /\ sceneObjects = NoObjects
      /\ orbitalPaths = PathsProps(orbits, starRadius)
      /\ solarObjects = NoSolarObjects
      /\ tickLog = <<>>

\* animate of OrbitalPaths: frame++, the camera moved along its circle, a
\* render, and the next frame requested; the handle is not kept.  The
\* callback carries the run of the effect whose closure it is.
PathsAnimateCall(pend, run, effect) ==
  Append(pend, LoopCallback(NewHandle(HandlesOf(pend) \cup HandlesOf(run)),
                            "pathsAnimate", effect, 1))

\* The star fields of a system record, each absent, 0 or another number.
StarFields ==
  [st_rad : RawCells({0, 120}), st_teff : RawCells({0, 4000}),
   st_mass : RawCells({0, 90}), st_lum : RawCells({0, 250})]

WithStar(system, fields) ==
  [system EXCEPT !.st_rad = fields.st_rad, !.st_teff = fields.st_teff,
                 !.st_mass = fields.st_mass, !.st_lum = fields.st_lum]

\* The detail view before its scene effect has run, for a selected system
\* with any star fields and the planets of Catalog.
InitDetail(systems, planets) ==
  /\ currentView = "exoplanet"
  /\ selectedSystem = 1
  /\ focusedPlanet = NoPlanet
  /\ isTransitioning = FALSE
  /\ animationFrameRef = Null
  /\ mainAnimationId = Null
  /\ starFocusedPlanet = NoPlanet
  /\ req = Null
  /\ cameraRef = Null
  /\ mounted = 2
  /\ cams = <<>>
  /\ rafPending = <<>>
  /\ rafRunning = <<>>
  /\ onSystemClickLog = <<>>
  /\ lastInput = NoInput
  /\ superseded = {}
  /\ stale = {}
  /\ inputs = MaxInputs
  /\ midFlight = 0
  /\ hoveredOrbit = NoPlanet
  /\ hoveredSystem = Null
  /\ pointer = NoPointer
  /\ exoplanetSystems = systems
  /\ planetsData = planets
  /\ dataLoads = 1
  /\ DataSettled
  /\ sceneObjects = NoObjects
  /\ orbitalPaths = NoPaths
  /\ solarObjects = NoSolarObjects
  /\ tickLog = <<>>

InitStarData ==
  \E fields \in StarFields :
    InitDetail(<<WithStar(SystemCatalog[1], fields), SystemCatalog[2]>>, Catalog)

SpecStarData == InitStarData /\ [][NextScene]_vars

\* Planet records of one system, two of which may carry the same name.
NamedPlanets ==
  [pl_name : {"b", "c"}, pl_orbsmax : {Num(50), Num(100)},
   pl_orbeccen : {Undefined}, pl_orblper : {Undefined}]

NamedLists == UNION { [1..n -> NamedPlanets] : n \in 0..MaxPlanets }

\* The detail view before its scene effect has run, for up to MaxPlanets
\* named planet records of the selected system.
InitNames ==
  \E planets \in NamedLists :
    InitDetail(SystemCatalog, planets)

SpecNames == InitNames /\ [][NextScene]_vars

\* The effect of OrbitalPaths: scene, camera and renderer, one ellipse per
\* orbit it does not skip, the star, and the first call of animate().
OrbitalPathsEffect ==
  /\ ~orbitalPaths.built
  /\ ~orbitalPaths.unmounted
  /\ orbitalPaths' =
       [orbitalPaths EXCEPT
          !.built = TRUE,
          !.ellipses = PathsEllipses(orbitalPaths.orbits, orbitalPaths.starRadius),
          !.frame = 1,
          !.effect = @ + 1]
  /\ rafPending' = PathsAnimateCall(rafPending, rafRunning, orbitalPaths.effect + 1)
  /\ UNCHANGED <<navVars, solarVars, starVars, cameraRef, mounted, cams,
                 rafRunning, histVars, lastInput, superseded, inputs, midFlight,
                 hoverVars, pointer, dataVars, sceneObjects, solarObjects,
                 tickLog>>

\* The callback belongs to the run of the effect that is in place.
PathsLive(cb) == orbitalPaths.built /\ cb.scene = orbitalPaths.effect

\* A frame calls animate of OrbitalPaths: of the effect in place, or of one
\* that was cleaned up, whose closure counts its own frames.  animate has
\* no condition on its requestAnimationFrame(animate).
OrbitalPathsAnimate ==
  /\ Running("pathsAnimate")
  /\ orbitalPaths.frame < MaxPathFrames
  /\ orbitalPaths' =
       IF PathsLive(Head(rafRunning))
       THEN [orbitalPaths EXCEPT !.frame = @ + 1]
       ELSE orbitalPaths
  /\ rafRunning' = Tail(rafRunning)
  /\ rafPending' = PathsAnimateCall(rafPending, Tail(rafRunning),
                                   Head(rafRunning).scene)
  /\ UNCHANGED <<navVars, solarVars, starVars, cameraRef, mounted, cams,
                 histVars, lastInput, superseded, inputs, midFlight,
                 hoverVars, pointer, dataVars, sceneObjects, solarObjects>>
  /\ TickCarry

NextPaths ==
  \/ OrbitalPathsEffect
  \/ FrameBegin
  \/ OrbitalPathsAnimate

SpecPaths == InitPaths /\ [][NextPaths]_vars

\* The cleanup of the effect: renderer.dispose() and the canvas removed.
PathsCleanup(paths) == [paths EXCEPT !.built = FALSE, !.ellipses = <<>>]

\* starRadius changes: React runs the cleanup and then the effect again, up
\* to MaxEffects runs of the effect.
OrbitalPathsPropsChange ==
  /\ orbitalPaths.built
  /\ orbitalPaths.effect < MaxEffects
  /\ \E starRadius \in {100, 250} \ {orbitalPaths.starRadius} :
       orbitalPaths' =
         [PathsCleanup(orbitalPaths) EXCEPT
            !.starRadius = starRadius,
            !.built = TRUE,
            !.ellipses = PathsEllipses(orbitalPaths.orbits, starRadius),
            !.frame = 1,
            !.effect = @ + 1]
  /\ rafPending' = PathsAnimateCall(rafPending, rafRunning, orbitalPaths.effect + 1)
  /\ UNCHANGED <<navVars, solarVars, starVars, cameraRef, mounted, cams,
                 rafRunning, histVars, lastInput, superseded, inputs, midFlight,
                 hoverVars, pointer, dataVars, sceneObjects, solarObjects,
                 tickLog>>

\* The component unmounts: the cleanup runs and no effect follows.
OrbitalPathsUnmount ==
  /\ orbitalPaths.built
  /\ orbitalPaths' = [PathsCleanup(orbitalPaths) EXCEPT !.unmounted = TRUE]
  /\ UNCHANGED <<navVars, solarVars, starVars, cameraRef, mounted, cams,
                 rafPending, rafRunning, histVars, lastInput, superseded, inputs,
                 midFlight, hoverVars, pointer, dataVars, sceneObjects,
                 solarObjects, tickLog>>

\* The system records the data layer yields: a distance that is missing, 0
\* or positive, with the position it gives the record.
SystemRecords ==
  { [sy_dist |-> d, position |-> SystemPosition(ra, dec, d),
     st_rad |-> Undefined, st_teff |-> Undefined, st_mass |-> Undefined,
     st_lum |-> Undefined] :
      ra \in {0, 90}, dec \in {0, 90}, d \in RawCells({0, 2000, 4000}) }

SystemLists == UNION { [1..n -> SystemRecords] : n \in 0..MaxSystems }

\* The overview when SystemNavigator has rendered SolarSystemRenderer and its
\* effect has not run yet, for up to MaxSystems system records and the
\* props of an OrbitalPaths component.
InitOverview(systems, paths) ==
  /\ currentView = "solar"
  /\ selectedSystem = Null
  /\ focusedPlanet = NoPlanet
  /\ isTransitioning = FALSE
  /\ animationFrameRef = Null
  /\ mainAnimationId = Null
  /\ starFocusedPlanet = NoPlanet
  /\ req = Null
  /\ cameraRef = Null
  /\ mounted = 1
  /\ cams = <<>>
  /\ rafPending = <<>>
  /\ rafRunning = <<>>
  /\ onSystemClickLog = <<>>
  /\ lastInput = NoInput
  /\ superseded = {}
  /\ stale = {}
  /\ inputs = MaxInputs
  /\ midFlight = 0
  /\ hoveredOrbit = NoPlanet
  /\ hoveredSystem = Null
  /\ pointer = NoPointer
  /\ exoplanetSystems = systems
  /\ planetsData = <<>>
  /\ dataLoads = 1
  /\ DataSettled
  /\ sceneObjects = NoObjects
  /\ orbitalPaths = paths
  /\ solarObjects = NoSolarObjects
  /\ tickLog = <<>>

InitSolarScene == \E systems \in SystemLists : InitOverview(systems, NoPaths)

\* The first run of the overview's effect: scene, camera, planets with
\* their hitboxes and orbit lines, markers, and the first call of animate().
SolarMountEffect ==
  /\ currentView = "solar"
  /\ cameraRef = Null
  /\ LET e == SolarEffect(cams, rafPending, rafRunning, mounted, Null)
     IN /\ cameraRef' = e.scene
        /\ cams' = e.cams
        /\ rafPending' = e.pend
        /\ mainAnimationId' = e.mainAnimationId
        /\ solarObjects' = SolarObjects(SolarBodies, exoplanetSystems, e.scene)
  /\ UNCHANGED <<navVars, focusedPlanet, isTransitioning, animationFrameRef,
                 starVars, mounted, rafRunning, histVars, lastInput, superseded,
                 inputs, midFlight, hoverVars, pointer, dataVars, sceneObjects,
                 orbitalPaths, tickLog>>

NextSolarScene ==
  \/ SolarMountEffect
  \/ FrameBegin
  \/ SolarAnimate

SpecSolarScene == InitSolarScene /\ [][NextSolarScene]_vars

\* Orbits for OrbitalPaths: with or without a semi-major axis, with or
\* without an eccentricity.
LoopOrbits ==
  [pl_orbsmax : RawCells({100}), pl_orbeccen : RawCells({0, 50})]

\* The overview and an OrbitalPaths component, each before its effect.
InitLoops ==
  \E n \in 0..MaxOrbits :
    \E orbits \in [1..n -> LoopOrbits], starRadius \in {100, 250} :
      InitOverview(SystemCatalog, PathsProps(orbits, starRadius))

NextLoops ==
  \/ SolarMountEffect
  \/ OrbitalPathsEffect
  \/ FrameBegin
  \/ SolarAnimate
  \/ OrbitalPathsAnimate

SpecLoops == InitLoops /\ [][NextLoops]_vars

\* OrbitalPaths with one orbit at most, before its effect.
InitRerun ==
  \E n \in 0..1 :
    \E orbits \in [1..n -> LoopOrbits], starRadius \in {100, 250} :
      InitOverview(SystemCatalog, PathsProps(orbits, starRadius))

NextRerun ==
  \/ OrbitalPathsEffect
  \/ OrbitalPathsPropsChange
  \/ OrbitalPathsUnmount
  \/ FrameBegin
  \/ OrbitalPathsAnimate

SpecRerun == InitRerun /\ [][NextRerun]_vars

\* ------------------------------------------------------------------ claims
SolarCameraFns == {"focus", "marker", "back"}
StarCameraFns == {"starFocus", "starBack"}
Waiting == Range(rafPending) \cup Range(rafRunning)
CountIn(q, fns, scenes) ==
  Cardinality({i \in DOMAIN q : q[i].fn \in fns /\ q[i].scene \in scenes})
Scenes == {cb.scene : cb \in Waiting} \cup {cameraRef}

\* C1: in the solar overview at most one camera-animation callback is
\* scheduled at any moment, and it is the one animationFrameRef names: none
\* is queued behind it.
C1_OneOverviewAnimation ==
  /\ CountIn(rafPending, SolarCameraFns, Scenes)
       + CountIn(rafRunning, SolarCameraFns, Scenes) <= 1
  /\ \A cb \in Waiting : cb.fn \in SolarCameraFns => cb.id = animationFrameRef

C1_Witness ==
  /\ superseded # {}
  /\ \E cb \in Range(rafPending) : cb.fn \in SolarCameraFns

\* C2: in the star detail view at most one camera transition is scheduled
\* per camera at any time.
C2_OneTransitionPerCamera ==
  \A scene \in Scenes :
    CountIn(rafPending, StarCameraFns, {scene})
      + CountIn(rafRunning, StarCameraFns, {scene}) <= 1

\* C3: whenever onSystemClick is invoked it is the only invocation by this
\* overview, and its system is that of the latest input, a marker click: a
\* marker transition superseded by any later input never invokes it.
C3_CancelledNeverCompletes ==
  [][Len(onSystemClickLog') > Len(onSystemClickLog) =>
       /\ Cardinality({k \in DOMAIN onSystemClickLog' :
                         onSystemClickLog'[k].inst = mounted}) = 1
       /\ \E i \in Systems :
            /\ onSystemClickLog'[Len(onSystemClickLog')].sys = i
            /\ lastInput' = [kind |-> "marker", arg |-> SystemName(i)]]_vars

C3_Witness ==
  /\ currentView = "exoplanet"
  /\ onSystemClickLog # <<>>
  /\ "marker" \in superseded

\* C4: a transition begun by an input captures as its start position and
\* start look-target the camera position and controls target of the moment
\* of the call, also when it supersedes a transition in flight.
C4_StartsFromCurrentPose ==
  [][inputs' > inputs =>
       \A cb \in Range(rafPending') \ Range(rafPending) :
         IsCameraCallback(cb) =>
           /\ cb.startPos = cams[cb.scene].pos
           /\ cb.startTarget = cams[cb.scene].target]_vars

C4_Witness ==
  \E cb \in Range(rafPending) :
    /\ cb.fn \in StarCameraFns
    /\ cb.scene = cameraRef
    /\ Len(cb.startPos) > 1
    /\ Len(cb.startTarget) > 1

\* C5: at every invocation of onSystemClick the overview camera is at the
\* marker position plus (50, 25, 50) and the controls target at the marker.
C5_AtDestinationOnSwap ==
  \A i \in DOMAIN onSystemClickLog :
    onSystemClickLog[i].camera =
      Pose(At(VAdd(MarkerPos(onSystemClickLog[i].sys), ZoomOffset)),
           At(MarkerPos(onSystemClickLog[i].sys)))

\* C6: the call of a focus or back animation that brings progress to 1 or
\* more leaves the camera and the controls target exactly at the end pose,
\* isTransitioning false and the frame handle cleared, and requests no
\* further frame; and isTransitioning falls in the overview only there.
C6_Completing ==
  /\ rafRunning # <<>>
  /\ Head(rafRunning).fn \in {"focus", "back"}
  /\ FLeq(One, FAdd(Head(rafRunning).progress, Step004))

C6_SnapsThenFinishes ==
  [][/\ C6_Completing =>
          /\ cams'[Head(rafRunning).scene] =
               Pose(At(Head(rafRunning).endPos), At(Head(rafRunning).endTarget))
          /\ ~isTransitioning'
          /\ animationFrameRef' = Null
          /\ \A cb \in Range(rafPending') \cup Range(rafRunning') :
               cb.fn \notin {"focus", "back"}
     /\ (currentView = "solar" /\ currentView' = "solar"
           /\ isTransitioning /\ ~isTransitioning') => C6_Completing]_vars

C6_Witness ==
  /\ currentView = "solar"
  /\ focusedPlanet = "Earth"
  /\ ~isTransitioning
  /\ animationFrameRef = Null
  /\ cams[cameraRef] = Pose(At(<<4500, 250, 500>>), At(<<4000, 0, 0>>))

\* C7: no camera animation of a torn-down detail scene writes that scene's
\* camera, and no back animation calls setFocusedPlanet after its view was
\* left.
C7_TeardownCancels ==
  stale \cap {"starFocus", "starBack", "setFocusedPlanet"} = {}

\* C8: a planet click in the detail view leaves the scene, camera, controls
\* and render loop the ones that were there before the click.
C8_ClickKeepsScene ==
  [][(inputs' > inputs /\ lastInput'.kind = "starPlanet") =>
       (cameraRef' = cameraRef /\ req' = req)]_vars

\* C9: once the animation started by a planet click in the detail view has
\* run out with no further input, the view's camera is at the planet
\* position plus (50, 25, 50) and the controls target at the planet.
C9_RestsAtPlanet ==
  \A p \in StarPlanets :
    (/\ currentView = "exoplanet"
     /\ lastInput = [kind |-> "starPlanet", arg |-> p.name]
     /\ \A cb \in Waiting : ~IsCameraCallback(cb))
    => cams[cameraRef] = Pose(At(VAdd(p.pos, ZoomOffset)), At(p.pos))

\* C10: after the overview's cleanup none of its callbacks is left to run
\* and none has run: render loop, planet focus, marker transition, back.
C10_OverviewTornDown ==
  /\ stale \cap {"animate", "focus", "marker", "back"} = {}
  /\ \A cb \in Waiting :
       cb.fn \in {"animate", "focus", "marker", "back"} =>
         (currentView = "solar" /\ cb.scene = cameraRef)

C10_Witness ==
  /\ currentView = "exoplanet"
  /\ lastInput.kind = "starPlanet"
  /\ BetweenFrames

\* C11: exactly one view is active: currentView is 'exoplanet' exactly when
\* a system is selected, so SystemNavigator renders one of the two
\* renderers and never the empty branch.
C11_OneViewActive ==
  /\ currentView \in {"solar", "exoplanet"}
  /\ (currentView = "exoplanet") <=> (selectedSystem # Null)
  /\ Rendered # "null"

C11_Witness ==
  /\ currentView = "solar"
  /\ lastInput.kind = "backToSolar"
  /\ selectedSystem = Null

\* The step is a pointer event of the overview: events come between frames,
\* and a frame's first step fills rafRunning.
ClickStep == rafRunning = <<>> /\ rafRunning' = <<>> /\ pointer'.event = "click"
MoveStep == rafRunning = <<>> /\ rafRunning' = <<>> /\ pointer'.event = "move"
NearestOf(hits, kind) ==
  LET at == {i \in DOMAIN hits : hits[i].kind = kind}
  IN IF at = {} THEN "none"
     ELSE hits[CHOOSE i \in at : \A j \in at : i <= j].id
Begun(fn) == {cb \in Range(rafPending') : cb.fn = fn /\ cb.progress \in {Step004, Step160}}

\* C12: a click in the overview resolves to one entity of the first
\* non-empty tier, hitboxes, then planet meshes, then system markers, the
\* nearest within the tier: a hitbox wins over a nearer marker or mesh, and
\* a marker is taken only when no hitbox and no mesh is hit.
C12_ClickPriority ==
  [][ClickStep =>
       LET hits == pointer'.hits
           hitbox == NearestOf(hits, "hitbox")
           mesh == NearestOf(hits, "mesh")
           marker == NearestOf(hits, "marker")
           planet == IF hitbox # "none" THEN hitbox ELSE mesh
       IN IF planet # "none"
          THEN /\ focusedPlanet' = planet
               /\ lastInput' = [kind |-> "planet", arg |-> planet]
               /\ Begun("marker") = {}
               /\ \E cb \in Begun("focus") :
                    /\ cb.endTarget = PlanetNamed(planet).pos
                    /\ animationFrameRef' = cb.id
          ELSE IF marker # "none"
          THEN /\ focusedPlanet' = focusedPlanet
               /\ lastInput' = [kind |-> "marker", arg |-> marker]
               /\ Begun("focus") = {}
               /\ \E cb \in Begun("marker") :
                    /\ SystemName(cb.sys) = marker
                    /\ animationFrameRef' = cb.id
          ELSE UNCHANGED <<focusedPlanet, currentView, rafPending, cams,
                           animationFrameRef, isTransitioning, lastInput>>]_vars

C12_Witness ==
  /\ pointer.event = "click"
  /\ pointer.hits = <<Hit("marker", SystemName(1)), Hit("hitbox", "Earth"),
                      Hit("mesh", "Earth")>>
  /\ focusedPlanet = "Earth"
  /\ lastInput = [kind |-> "planet", arg |-> "Earth"]

\* C13: a mouse move whose ray meets a planet's hitbox and that planet's
\* orbit line does not set hoveredOrbit: the handler returns at the hitbox.
C13_HitboxHidesOrbit ==
  [][(MoveStep /\ \E name \in {p.name : p \in SolarPicks} :
                    /\ Hit("hitbox", name) \in Range(pointer'.hits)
                    /\ Hit("orbit", name) \in Range(pointer'.hits))
       => UNCHANGED <<hoveredOrbit, hoveredSystem>>]_vars

C13_Witness ==
  /\ pointer.event = "move"
  /\ pointer.hits = <<Hit("hitbox", "Earth"), Hit("orbit", "Earth")>>
  /\ hoveredOrbit = NoPlanet

\* C14: a pointer event whose ray meets no pickable entity leaves the hover
\* state (a move) and focusedPlanet, the view and the running transition (a
\* click) as they were.
C14_MissLeavesState ==
  [][/\ (MoveStep /\ pointer'.hits = <<>>)
          => UNCHANGED <<hoveredOrbit, hoveredSystem>>
     /\ (ClickStep /\ pointer'.hits = <<>>)
          => UNCHANGED <<focusedPlanet, currentView, selectedSystem, rafPending,
                         cams, animationFrameRef, isTransitioning>>]_vars

\* C15: hoveredOrbit and hoveredSystem are never both set, and after a
\* mouse move hoveredOrbit is set only to an orbit the move's ray met with
\* no planet hitbox on it.
C15_SingleHover ==
  /\ ~(hoveredOrbit # NoPlanet /\ hoveredSystem # Null)
  /\ (pointer.event = "move" /\ hoveredOrbit # NoPlanet) =>
       /\ Hit("orbit", hoveredOrbit) \in Range(pointer.hits)
       /\ NearestOf(pointer.hits, "hitbox") = "none"

\* C16: the completing call of a back-to-system animation leaves the view's
\* camera at its initial pose, the controls target at the origin and no
\* planet focused: (0, 200, 400) in the overview, the pose captured at
\* scene construction in the detail view.
C16_SolarBackCompleting ==
  /\ Running("back")
  /\ ~SolarContinues(FAdd(Head(rafRunning).progress, SolarStep))

C16_StarBackCompleting ==
  /\ Running("starBack")
  /\ Head(rafRunning).inst = mounted
  /\ ~StarContinues(FAdd(Head(rafRunning).progress, StarStep))

C16_BackResets ==
  [][/\ C16_SolarBackCompleting =>
          /\ cams'[cameraRef'] = Pose(At(<<0, 20000, 40000>>), At(<<0, 0, 0>>))
          /\ focusedPlanet' = NoPlanet
     /\ C16_StarBackCompleting =>
          /\ cams'[cameraRef'] = Pose(At(StarInitialCameraPos), At(<<0, 0, 0>>))
          /\ starFocusedPlanet' = NoPlanet]_vars

C16_Witness ==
  /\ currentView = "exoplanet"
  /\ lastInput.kind = "starBack"
  /\ starFocusedPlanet = NoPlanet
  /\ \A cb \in Waiting : cb.fn # "starBack"

\* C17: whenever a planet is focused, in either view, the back control is
\* present and enabled, also while a camera transition is in flight.
C17_BackAlwaysAvailable ==
  /\ (currentView = "solar" /\ focusedPlanet # NoPlanet) => SolarBackEnabled
  /\ (currentView = "exoplanet" /\ starFocusedPlanet # NoPlanet) => StarBackEnabled

\* C18: the overview mounted by handleBackToSolar is in its initial state:
\* no focused planet, not transitioning, nothing hovered, no camera
\* animation pending, the camera at (0, 200, 400) looking at the origin,
\* whatever state the overview was left in.
C18_FreshOverview ==
  [][(currentView = "exoplanet" /\ currentView' = "solar") =>
       /\ focusedPlanet' = NoPlanet
       /\ ~isTransitioning'
       /\ hoveredOrbit' = NoPlanet
       /\ hoveredSystem' = Null
       /\ animationFrameRef' = Null
       /\ \A cb \in Range(rafPending') \cup Range(rafRunning') :
            cb.fn \notin SolarCameraFns
       /\ cams'[cameraRef'] = Pose(At(<<0, 20000, 40000>>), At(<<0, 0, 0>>))]_vars

C18_Witness ==
  /\ currentView = "solar"
  /\ lastInput.kind = "backToSolar"
  /\ focusedPlanet = NoPlanet
  /\ \E k \in DOMAIN onSystemClickLog :
       /\ onSystemClickLog[k].focusedPlanet = "Earth"
       /\ onSystemClickLog[k].isTransitioning

\* The records whose objects the detail scene holds.
PlanetsOf(objects) == {objects[k].planet : k \in DOMAIN objects}
SceneBuilt == sceneObjects.scene # Null /\ sceneObjects.scene = cameraRef

\* C19: a planet record with eccentricity >= 1 produces no entity in the
\* detail scene: StarRenderer adds neither an orbit curve nor a planet body
\* for it, while the system's other planets are still rendered.
C19_InvalidEccentricitySkipped ==
  SceneBuilt =>
    \A i \in DOMAIN planetsData :
      IF OrDefault(planetsData[i].pl_orbeccen, 0) >= 100
      THEN /\ i \notin PlanetsOf(sceneObjects.orbits)
           /\ i \notin PlanetsOf(sceneObjects.planetMeshes)
      ELSE ~SkipsPlanet(planetsData[i]) =>
             /\ i \in PlanetsOf(sceneObjects.orbits)
             /\ i \in PlanetsOf(sceneObjects.planetMeshes)

\* The records with a semi-major axis above 0.
ValidAxis(planets) ==
  {i \in DOMAIN planets :
     planets[i].pl_orbsmax # Undefined /\ planets[i].pl_orbsmax[1] > 0}

\* C20: a planet whose semi-major axis is missing, zero or negative is
\* skipped without affecting the others: once the detail scene is built,
\* the number of planet bodies and the number of orbit curves both equal the
\* number of the system's records with semi-major axis > 0, and the bodies
\* and curves are those of exactly these records, one each.
C20_BadAxisContained ==
  SceneBuilt =>
    /\ Len(sceneObjects.planetMeshes) = Cardinality(ValidAxis(planetsData))
    /\ Len(sceneObjects.orbits) = Cardinality(ValidAxis(planetsData))
    /\ PlanetsOf(sceneObjects.planetMeshes) = ValidAxis(planetsData)
    /\ PlanetsOf(sceneObjects.orbits) = ValidAxis(planetsData)

\* A scene built from a record without semi-major axis, one with a zero or
\* negative axis and one with a positive axis, in one system.
C20_Witness ==
  /\ SceneBuilt
  /\ \E i, j, k \in DOMAIN planetsData :
       /\ planetsData[i].pl_orbsmax = Undefined
       /\ planetsData[j].pl_orbsmax # Undefined /\ planetsData[j].pl_orbsmax[1] <= 0
       /\ k \in ValidAxis(planetsData)
       /\ Len(sceneObjects.planetMeshes) = 1
       /\ sceneObjects.planetMeshes[1].planet = k
  /\ \E j \in DOMAIN planetsData : planetsData[j].pl_orbsmax = Num(0)

\* C21: the eccentricity used to build orbit geometry always satisfies
\* 0 <= e < 1: whatever pl_orbeccen is (missing, negative, in range, 1 or
\* more), the value ecc from which OrbitalPaths computes the semi-minor axis
\* lies in [0, 1).
C21_EccentricityInRange ==
  \A k \in DOMAIN orbitalPaths.ellipses :
    /\ 0 <= orbitalPaths.ellipses[k].ecc
    /\ orbitalPaths.ellipses[k].ecc < 100

\* The place of a kind of work in the order of a tick.
TickRank(work) ==
  IF work = "advance" THEN 1 ELSE IF work = "pick" THEN 2
  ELSE IF work = "appearance" THEN 3 ELSE 4

\* C22: within every frame the work on a view is done in the fixed order:
\* advance the live camera transition, then the hover pick, then the
\* updates of time-varying appearance parameters, then the render.
C22_TickOrder ==
  \A i, j \in DOMAIN tickLog :
    (i < j /\ tickLog[i].scene = tickLog[j].scene)
      => TickRank(tickLog[i].work) <= TickRank(tickLog[j].work)

\* The camera callbacks a frame has still to call or will call next.
LiveCameraCallbacks ==
  {cb \in Range(rafPending) \cup Range(rafRunning) : IsCameraCallback(cb)}

\* The calls of camera callbacks in the frame so far.
Advances == {k \in DOMAIN tickLog : tickLog[k].work = "advance"}

\* C23 as stated: the progress of every camera transition stays in [0, 1]:
\* it never exceeds 1 at any tick, in either view.
C23_ProgressInUnitInterval ==
  /\ \A cb \in LiveCameraCallbacks :
       FLeq(Zero, cb.progress) /\ FLeq(cb.progress, One)
  /\ \A k \in Advances :
       FLeq(Zero, tickLog[k].progress) /\ FLeq(tickLog[k].progress, One)

\* C23 amended: progress advances by the constant step of its transition on
\* every call; the progress a transition keeps for its next call is in
\* [0, 1]; the progress a call leaves is above 0 and below 1 plus one step,
\* and a value above 1 is left only by the call that ends the transition.
C23_ProgressWithinOneStep ==
  /\ \A cb \in LiveCameraCallbacks :
       FLeq(Zero, cb.progress) /\ FLeq(cb.progress, One)
  /\ \A k \in Advances :
       /\ FLess(Zero, tickLog[k].progress)
       /\ FLess(tickLog[k].progress, FAdd(One, StepOf(tickLog[k].fn)))
       /\ FLess(One, tickLog[k].progress) =>
            \A cb \in LiveCameraCallbacks :
              (cb.fn = tickLog[k].fn /\ cb.scene = tickLog[k].scene)
                => cb.progress # tickLog[k].progress

\* A frame in which the last call of a transition of the detail view has
\* left its progress above 1 while the overview's next transition, started
\* since, is under way.
C23_Witness ==
  /\ \E k \in Advances :
       tickLog[k].fn \in {"starFocus", "starBack"} /\ FLess(One, tickLog[k].progress)
  /\ \E cb \in LiveCameraCallbacks :
       cb.fn \in {"focus", "marker"} /\ FLess(Zero, cb.progress)

\* The progress of a closure after n more calls that each add step.
RECURSIVE StepSumFrom(_, _, _)
StepSumFrom(progress, step, n) ==
  IF n = 0 \/ FLess(progress, Zero) THEN progress
  ELSE StepSumFrom(FAdd(progress, step), step, n - 1)

StepSum(step, n) == StepSumFrom(Zero, step, n)

\* Does the call that left this progress request another frame?
Continues(fn, progress) ==
  IF fn \in {"focus", "back"} THEN SolarContinues(progress)
  ELSE IF fn = "marker" THEN MarkerContinues(progress)
  ELSE StarContinues(progress)

\* The number of calls after which a transition has ended, as claimed.
ClaimedCalls(fn) ==
  IF fn \in {"focus", "back"} THEN 25 ELSE IF fn = "marker" THEN 60 ELSE 51

\* C24: a camera transition that is not superseded stops requesting frames
\* after a fixed number of calls of its step function: the 25th call in the
\* overview's focus and back transitions, the 60th of the marker
\* transition, the 51st in the detail view; no call before that one ends it
\* and none follows it.
C24_EndsAfterFixedCalls ==
  \A k \in Advances :
    LET fn == tickLog[k].fn
        last == StepSum(StepOf(fn), ClaimedCalls(fn))
    IN /\ FLeq(tickLog[k].progress, last)
       /\ Continues(fn, tickLog[k].progress) <=> tickLog[k].progress # last

\* C25: the loaded datasets are read-only snapshots for the views: once
\* loading has finished no view operation (handleSystemClick,
\* handleBackToSolar, picking, camera transitions, entering or leaving a
\* view) changes exoplanetSystems or planetsData or runs loadData again.
C25_DatasetsReadOnly ==
  [][/\ exoplanetSystems' = exoplanetSystems
     /\ planetsData' = planetsData
     /\ dataLoads' = dataLoads]_vars

\* The overview entered again from a detail view that was entered by
\* handleSystemClick, with the datasets as loaded.
C25_Witness ==
  /\ currentView = "solar"
  /\ onSystemClickLog # <<>>
  /\ lastInput.kind = "backToSolar"
  /\ planetsData = Catalog
  /\ dataLoads = 1

\* The records with valid elements: a semi-major axis above 0 and an
\* eccentricity below 1.
ValidElements(planets) ==
  {i \in ValidAxis(planets) : OrDefault(planets[i].pl_orbeccen, 0) < 100}

\* The orbital-frame periapsis of a record with valid elements, at distance
\* a(1 - e) from the star in the direction the argument of periastron gives.
PeriapsisOf(planet) ==
  LET r == planet.pl_orbsmax[1] * (100 - OrDefault(planet.pl_orbeccen, 0)) * 100
  IN IF OrDefault(planet.pl_orblper, 0) = 90 THEN <<0, r, 0>> ELSE <<r, 0, 0>>

\* The orbital-frame curve of a record with valid elements.
OrbitalCurve(planet) ==
  generate3DOrbit([pl_orbsmax |-> planet.pl_orbsmax[1],
                   pl_orbeccen |-> OrDefault(planet.pl_orbeccen, 0),
                   pl_orblper |-> planet.pl_orblper], "sampled")

\* (x, y, z) -> (x, z, y) times 50
TimesFifty(p) == <<50 * p[1], 50 * p[3], 50 * p[2]>>

\* C26: in the detail scene the position of a planet and every point of its
\* orbit curve come from orbital-frame coordinates by the same mapping
\* (x, y, z) -> (x, z, y) times AU_TO_SCENE_UNITS * SYSTEM_SCALE = 50, so
\* the planet, placed at its periapsis, lies on its rendered curve; a
\* planet with a = 1 AU, e = 0 and no rotation is at (50, 0, 0).
C26_SameMapping ==
  SceneBuilt =>
    \A k \in DOMAIN sceneObjects.planetMeshes :
      LET mesh == sceneObjects.planetMeshes[k]
          curve == sceneObjects.orbits[k]
          planet == planetsData[mesh.planet]
      IN mesh.planet \in ValidElements(planetsData) =>
           /\ curve.planet = mesh.planet
           /\ mesh.position = TimesFifty(PeriapsisOf(planet))
           /\ curve.points[1] = mesh.position
           /\ curve.points = [n \in DOMAIN OrbitalCurve(planet) |->
                                TimesFifty(OrbitalCurve(planet)[n])]
           /\ (planet.pl_orbsmax = Num(100) /\ ~Truthy(planet.pl_orbeccen)
                 /\ ~Truthy(planet.pl_orblper))
                => mesh.position = <<50000000, 0, 0>>

\* A scene with the planet of a = 1 AU, e = 0 and no rotation, and with a
\* planet whose periapsis is a quarter turn away from the reference axis.
C26_Witness ==
  /\ SceneBuilt
  /\ \E k \in DOMAIN sceneObjects.planetMeshes :
       sceneObjects.planetMeshes[k].position = <<50000000, 0, 0>>
  /\ \E k \in DOMAIN sceneObjects.planetMeshes :
       /\ sceneObjects.planetMeshes[k].planet \in ValidElements(planetsData)
       /\ sceneObjects.planetMeshes[k].position[3] > 0

\* The orbit curves the program has generated, each with its number of
\* segments: the ellipses of OrbitalPaths and the orbit lines of the overview.
GeneratedCurves ==
  { [points |-> orbitalPaths.ellipses[k].points, segments |-> PathSegments] :
      k \in DOMAIN orbitalPaths.ellipses }
  \cup { [points |-> solarObjects.orbitLines[k].points, segments |-> OrbitSegments] :
           k \in DOMAIN solarObjects.orbitLines }

\* C27: every generated orbit curve is a closed loop: with N segments it has
\* N + 1 samples, sample i (from 0) is taken at angle 2*pi*i/N, and the first
\* and the last sample are at the same angle modulo a full turn, so at the
\* same point (N = 180 in OrbitalPaths, N = 128 for the overview's lines).
C27_ClosedLoop ==
  \A c \in GeneratedCurves :
    /\ Len(c.points) = c.segments + 1
    /\ \A i \in 0..c.segments : c.points[i + 1].theta = i
    /\ c.points[1].at = c.points[c.segments + 1].at

C27_Witness ==
  /\ \E c \in GeneratedCurves : c.segments = PathSegments
  /\ \E c \in GeneratedCurves : c.segments = OrbitSegments

\* The marker position of a record whose distance is 0 or missing.
FallbackMarker == scaleCoordinates(FallbackOffset, PARSEC_SCALE)

Undated(k) == ~Truthy(exoplanetSystems[k].sy_dist)

RealRadii == {0, 1, 2440, 6371, 69911, 696000, 2000000}

RadiiEnclose ==
  /\ \A r \in RealRadii : hitboxRadius(displayRadius(r)) >= displayRadius(r)
  /\ Len(solarObjects.invisibleHitboxes) = Len(solarObjects.planetMeshes)
  /\ \A k \in DOMAIN solarObjects.planetMeshes :
       /\ solarObjects.invisibleHitboxes[k].radius
            >= solarObjects.planetMeshes[k].radius
       /\ solarObjects.invisibleHitboxes[k].parentPlanet = k
       /\ solarObjects.invisibleHitboxes[k].position = Origin

\* The pointer ray starts outside the hitbox of this planet.
StartsOutside(line, id) ==
  \A j \in DOMAIN line :
    line[j] = Back("hitbox", id) =>
      \E i \in 1..(j - 1) : line[i] = Front("hitbox", id)

\* C30 as stated: the hitbox radius is at least the display radius for every
\* real radius, every hitbox is centred on its planet, and a pointer ray
\* that hits a planet mesh also hits the hitbox of that planet.
C30_RayHitsHitbox ==
  /\ RadiiEnclose
  /\ \A i \in DOMAIN pointer.hits :
       pointer.hits[i].kind = "mesh" =>
         Hit("hitbox", pointer.hits[i].id) \in Range(pointer.hits)

\* C30 as amended: the hitbox radius is at least the display radius for
\* every real radius, every hitbox is centred on its planet, and a pointer
\* ray that starts outside a planet's hitbox and hits the planet's mesh hits
\* the hitbox first.
C30_OutsideRayHitsHitbox ==
  /\ RadiiEnclose
  /\ \A i \in DOMAIN pointer.hits :
       (/\ pointer.hits[i].kind = "mesh"
        /\ StartsOutside(pointer.along, pointer.hits[i].id)) =>
         \E j \in 1..(i - 1) : pointer.hits[j] = Hit("hitbox", pointer.hits[i].id)

C30_Witness ==
  /\ solarObjects.planetMeshes # <<>>
  /\ pointer.event = "click"
  /\ \E i \in DOMAIN pointer.hits :
       /\ pointer.hits[i].kind = "mesh"
       /\ StartsOutside(pointer.along, pointer.hits[i].id)

StarFieldNames == {"st_rad", "st_teff", "st_mass", "st_lum"}

StarDefault(field) ==
  IF field = "st_rad" THEN DefaultRadius
  ELSE IF field = "st_teff" THEN DefaultTemperature
  ELSE IF field = "st_mass" THEN DefaultMass
  ELSE DefaultLuminosity

\* The curve of a record drawn with eccentricity 0.
CircularCurve(planet) ==
  generate3DOrbit([pl_orbsmax |-> planet.pl_orbsmax[1], pl_orbeccen |-> 0,
                   pl_orblper |-> planet.pl_orblper], "sampled")

\* C29: the star of the detail scene is built with radius 1.0, temperature
\* 5778, mass 1.0 and luminosity 0 exactly for the fields the system lacks,
\* and with the system's own value, 0 included, for every field it has; a
\* planet without an eccentricity gets the orbit curve of eccentricity 0.
C29_DefaultsForMissing ==
  SceneBuilt =>
    /\ \A f \in StarFieldNames :
         sceneObjects.starData[f] =
           IF exoplanetSystems[selectedSystem][f] = Undefined
           THEN StarDefault(f)
           ELSE exoplanetSystems[selectedSystem][f][1]
    /\ \A k \in DOMAIN sceneObjects.orbits :
         LET planet == planetsData[sceneObjects.orbits[k].planet]
         IN planet.pl_orbeccen = Undefined =>
              sceneObjects.orbits[k].points =
                [n \in DOMAIN CircularCurve(planet) |->
                   TimesFifty(CircularCurve(planet)[n])]

C29_Witness ==
  /\ SceneBuilt
  /\ exoplanetSystems[selectedSystem].st_rad = Num(0)
  /\ exoplanetSystems[selectedSystem].st_teff = Undefined
  /\ exoplanetSystems[selectedSystem].st_lum = Num(250)
  /\ \E k \in DOMAIN sceneObjects.orbits :
       planetsData[sceneObjects.orbits[k].planet].pl_orbeccen = Undefined

\* The records of the system that the scene effect does not skip and that
\* carry this name, in the order of the records.
RecordsNamed(name) ==
  { i \in DOMAIN planetsData :
      ~SkipsPlanet(planetsData[i]) /\ MeshName(planetsData[i].pl_name) = name }

\* The pickable planet entities of the detail view with this name.
EntitiesNamed(name) ==
  { k \in DOMAIN sceneObjects.planetMeshes :
      sceneObjects.planetMeshes[k].name = name }

\* C31: when planet records of a system carry the same name, the detail view
\* holds after construction exactly one pickable entity with that name, the
\* one built from the last of those records.
C31_LastWriteWins ==
  SceneBuilt =>
    \A name \in {"b", "c", "Planet"} :
      RecordsNamed(name) # {} =>
        /\ Cardinality(EntitiesNamed(name)) = 1
        /\ \A k \in EntitiesNamed(name) :
             \A i \in RecordsNamed(name) :
               i <= sceneObjects.planetMeshes[k].planet

\* C32: once the cleanup of an effect of OrbitalPaths has run (the component
\* unmounted, or the effect ran again for new props), a frame that calls the
\* animate of that effect requests no further frame.
C32_CleanedUpLoopStops ==
  [][(/\ Running("pathsAnimate")
      /\ rafRunning' = Tail(rafRunning)
      /\ ~PathsLive(Head(rafRunning)))
       => rafPending' = rafPending]_vars

\* C33: in the overview isTransitioning does not stay true for ever: when
\* the frames that were requested run, isTransitioning being true leads to
\* isTransitioning being false again or to the overview being unmounted by
\* the view switch, whatever clicks and back actions come in between.
C33_TransitionEnds ==
  (currentView = "solar" /\ isTransitioning)
    ~> (~isTransitioning \/ currentView # "solar")

C33_Witness ==
  /\ currentView = "solar"
  /\ ~isTransitioning
  /\ inputs = LiveInputs
  /\ lastInput.kind = "back"
  /\ animationFrameRef = Null

\* C34: in the overview, while a camera-animation frame is pending
\* (animationFrameRef holds the handle of a frame that was requested and not
\* cancelled), isTransitioning is true, and so the Back to System button is
\* disabled.
C34_InFlightDisablesBack ==
  (/\ currentView = "solar"
   /\ animationFrameRef # Null
   /\ animationFrameRef \in HandlesOf(rafPending) \cup HandlesOf(rafRunning))
    => (isTransitioning /\ ~SolarBackEnabled)

C34_Witness ==
  /\ currentView = "solar"
  /\ animationFrameRef \in HandlesOf(rafPending)
  /\ focusedPlanet # NoPlanet
  /\ lastInput.kind = "planet"
  /\ inputs = 2

\* The overview as its effect leaves it: scene, camera, planets, markers for
\* these system records, animate requested; the clock of the planets as
\* given and `done' inputs made before.
InitBuilt(systems, clock, done) ==
  LET e == SolarEffect(<<>>, <<>>, <<>>, 1, Null)
  IN /\ currentView = "solar"
     /\ selectedSystem = Null
     /\ focusedPlanet = NoPlanet
     /\ isTransitioning = FALSE
     /\ animationFrameRef = Null
     /\ mainAnimationId = e.mainAnimationId
     /\ starFocusedPlanet = NoPlanet
     /\ req = Null
     /\ cameraRef = e.scene
     /\ mounted = 1
     /\ cams = e.cams
     /\ rafPending = e.pend
     /\ rafRunning = <<>>
     /\ onSystemClickLog = <<>>
     /\ lastInput = NoInput
     /\ superseded = {}
     /\ stale = {}
     /\ inputs = done
     /\ midFlight = 0
     /\ hoveredOrbit = NoPlanet
     /\ hoveredSystem = Null
     /\ pointer = NoPointer
     /\ exoplanetSystems = systems
     /\ planetsData = Catalog
     /\ dataLoads = 1
     /\ DataSettled
     /\ sceneObjects = NoObjects
     /\ orbitalPaths = NoPaths
     /\ solarObjects = [SolarObjects(SolarBodies, systems, e.scene)
                          EXCEPT !.clock = clock]
     /\ tickLog = <<>>

\* The overview with the clock followed: the planets are where animate last
\* put them, and a click captures a planet where it is then.
InitMotion == InitBuilt(SystemCatalog, <<0>>, 0)

SpecMotion == InitMotion /\ [][NextOverview]_vars

\* C35: a planet click in the overview captures the planet's world position
\* c as it is at the click; the transition it starts carries c as its end
\* target and c + (d, d/2, d), d = max(8 * radius, 5), as its end position
\* from frame to frame whatever animate does to the planet meanwhile, and
\* the frame that completes it leaves the camera and the controls there.
C35_EndPoseIsCapture ==
  [][/\ \A p \in SolarPicks :
          (inputs' > inputs /\ lastInput' = [kind |-> "planet", arg |-> p.name])
          => \E cb \in Range(rafPending') :
               LET d == Max(8 * p.radius, 500)
               IN /\ cb.id = animationFrameRef'
                  /\ cb.fn = "focus"
                  /\ cb.endTarget = p.pos
                  /\ cb.endPos = VAdd(p.pos, <<d, d \div 2, d>>)
     /\ (Running("focus") /\ rafRunning' = Tail(rafRunning))
          => LET cb == Head(rafRunning)
             IN IF SolarContinues(FAdd(cb.progress, SolarStep))
                THEN \E nb \in Range(rafPending') :
                       /\ nb.id = animationFrameRef'
                       /\ nb.endPos = cb.endPos
                       /\ nb.endTarget = cb.endTarget
                ELSE cams'[cb.scene] = Pose(At(cb.endPos), At(cb.endTarget))]_vars

\* A completed planet focus whose planet has moved on since the click: the
\* controls target is where the planet was, not where it is.
C35_Witness ==
  /\ currentView = "solar"
  /\ lastInput.kind = "planet"
  /\ focusedPlanet # NoPlanet
  /\ ~isTransitioning
  /\ animationFrameRef = Null
  /\ solarObjects.clock # Untracked
  /\ cams[cameraRef].target # At(WorldPosition(focusedPlanet))
  /\ \E q \in 0..MaxClock :
       LET c == PlanetPosition(focusedPlanet, <<q>>)
           d == Max(8 * PlanetNamed(focusedPlanet).radius, 500)
       IN cams[cameraRef] = Pose(At(VAdd(c, <<d, d \div 2, d>>)), At(c))

\* The overview built from up to MaxSystems system records at a distance of
\* 20 parsecs, in sessions with PickInputs inputs left.
MarkerSystems == { r \in SystemRecords : r.sy_dist = Num(2000) }

MarkerLists == UNION { [1..n -> MarkerSystems] : n \in 0..MaxSystems }

InitMarkers ==
  \E systems \in MarkerLists : InitBuilt(systems, Untracked, MaxInputs - PickInputs)

NextMarkers ==
  \/ FrameBegin
  \/ SolarOnClick
  \/ SolarAnimate
  \/ SolarFocusFrame
  \/ SolarMarkerFrame

SpecMarkers == InitMarkers /\ [][NextMarkers]_vars

\* C36: in the overview the i-th marker carries systemIndex i (counted from
\* 0), systemData holds the i-th system of allExoplanetSystems at that
\* index and the marker stands at that system's scaled position; and once a
\* marker transition has completed, onSystemClick has been called with the
\* system of the clicked marker and selectedSystem is that system.
C36_MarkersAligned ==
  /\ (currentView = "solar" /\ cameraRef # Null) =>
       /\ Len(solarObjects.systemMarkers) = Len(exoplanetSystems)
       /\ Len(solarObjects.systemData) = Len(exoplanetSystems)
       /\ \A i \in DOMAIN solarObjects.systemMarkers :
            /\ solarObjects.systemMarkers[i].systemIndex = i - 1
            /\ solarObjects.systemData[i] = i
            /\ solarObjects.systemMarkers[i].position =
                 scaleCoordinates(exoplanetSystems[i].position, PARSEC_SCALE)
  /\ (currentView = "exoplanet" /\ lastInput.kind = "marker") =>
       /\ selectedSystem = SystemNamed(lastInput.arg)
       /\ onSystemClickLog # <<>>
       /\ onSystemClickLog[Len(onSystemClickLog)].sys = SystemNamed(lastInput.arg)

\* The second of two different systems was clicked and is now selected.
C36_Witness ==
  /\ currentView = "exoplanet"
  /\ lastInput = [kind |-> "marker", arg |-> SystemName(2)]
  /\ selectedSystem = 2
  /\ Len(exoplanetSystems) = 2
  /\ exoplanetSystems[1] # exoplanetSystems[2]

\* ----------------------------------------------- the datasets and the upload
\* Every variable of the views: the pages below leave them alone.
ViewsIdle ==
  UNCHANGED <<navVars, solarVars, starVars, cameraRef, mounted, cams,
              rafPending, rafRunning, histVars, lastInput, superseded, inputs,
              midFlight, hoverVars, pointer, sceneObjects, orbitalPaths,
              solarObjects, tickLog>>

\* A string is the JSON text of a value, the empty string, or text that is
\* no JSON.  JSON.stringify leaves out the properties that are undefined,
\* which read as undefined again after JSON.parse.
JSONstringify(value) == [text |-> "json", value |-> value]
EmptyString == [text |-> "", value |-> <<>>]
NotJSON == [text |-> "not json", value |-> <<>>]

\* JSON.parse(s) throws a SyntaxError unless s is JSON text.
ParseThrows(s) == s.text # "json"
JSONparse(s) == s.value

\* sessionStorage.getItem(key): null for an absent key
getItem(key) == sessionStorage[key]

\* `uploadedSystemsData && uploadedPlanetsData': null and '' are falsy.
NonEmpty(item) == item # <<>> /\ item[1] # EmptyString

UsesUploaded(systemsItem, planetsItem) == NonEmpty(systemsItem) /\ NonEmpty(planetsItem)

\* What an upload stores and what the CSV file of the site yields.
UploadedSystems == <<SystemCatalog[2]>>
UploadedPlanets == <<Catalog[1]>>

CsvRows ==
  { r \in RawRows : /\ r.pl_orbsmax \in {Num(0), Num(100)}
                    /\ r.pl_orbeccen = Num(50)
                    /\ r.pl_orblper = Undefined }

\* The data lines of the fetched text, after the header line.
MaxLines == 2
CsvTexts == UNION { [1..n -> CsvRows] : n \in 0..MaxLines }

\* SystemNavigator after its first render: useState([]) twice and
\* useState(true), the effect that calls loadData not run yet.
Mounted == [pc |-> "mounted", isLoading |-> TRUE, threw |-> "no", source |-> "none"]

\* No SystemNavigator: the page shown is not /.
NotMounted == [pc |-> "none", isLoading |-> TRUE, threw |-> "no", source |-> "none"]

\* setExoplanetSystems([]) and setPlanetsData([]) of the catch block
CaughtKeeps(current) == current

CaughtSystems(current) == <<>>

CaughtPlanets(current) == <<>>

\* catch { ... } finally { setIsLoading(false) } of loadData; threw keeps
\* the step that threw.
LoadCatch ==
  /\ exoplanetSystems' = CaughtSystems(exoplanetSystems)
  /\ planetsData' = CaughtPlanets(planetsData)
  /\ loading' = [loading EXCEPT !.pc = "done", !.isLoading = FALSE,
                                !.threw = loading.pc]

\* finally { setIsLoading(false) } after the try block has run to its end
LoadFinally(source) ==
  loading' = [loading EXCEPT !.pc = "done", !.isLoading = FALSE, !.source = source]

\* The effect of SystemNavigator calls loadData, which runs up to its first
\* await: the two items are read; if both are there they are parsed and
\* set, else loadAllExoplanetSystems() is called and awaited.
LoadDataStart ==
  /\ loading.pc = "mounted"
  /\ dataLoads' = dataLoads + 1
  /\ LET uploadedSystemsData == getItem("uploadedExoplanetSystems")
         uploadedPlanetsData == getItem("uploadedPlanetsData")
     IN IF UsesUploaded(uploadedSystemsData, uploadedPlanetsData)
        THEN IF ParseThrows(uploadedSystemsData[1]) \/ ParseThrows(uploadedPlanetsData[1])
             THEN LoadCatch
             ELSE /\ exoplanetSystems' = JSONparse(uploadedSystemsData[1])
                  /\ planetsData' = JSONparse(uploadedPlanetsData[1])
                  /\ LoadFinally("uploaded")
        ELSE /\ loading' = [loading EXCEPT !.pc = "awaitSystems", !.source = "csv"]
             /\ UNCHANGED <<exoplanetSystems, planetsData>>
  /\ UNCHANGED <<sessionStorage, uploadPage>>
  /\ ViewsIdle

\* `await loadAllExoplanetSystems()' settles: rejected, or the systems, which
\* are set before the CSV file is fetched.
LoadSystemsSettled ==
  /\ loading.pc = "awaitSystems"
  /\ \/ LoadCatch
     \/ \E systems \in {<<>>, SystemCatalog} :
          /\ exoplanetSystems' = systems
          /\ planetsData' = planetsData
          /\ loading' = [loading EXCEPT !.pc = "awaitFetch"]
  /\ UNCHANGED <<dataLoads, sessionStorage, uploadPage>>
  /\ ViewsIdle

\* `await fetch(...)' settles: rejected, or a response whose text is read.
LoadFetchSettled ==
  /\ loading.pc = "awaitFetch"
  /\ \/ LoadCatch
     \/ /\ loading' = [loading EXCEPT !.pc = "awaitText"]
        /\ UNCHANGED <<exoplanetSystems, planetsData>>
  /\ UNCHANGED <<dataLoads, sessionStorage, uploadPage>>
  /\ ViewsIdle

\* `await response.text()' settles: rejected, or the text, whose data lines
\* become the planet records if there is any line after the header.
LoadTextSettled ==
  /\ loading.pc = "awaitText"
  /\ \/ LoadCatch
     \/ \E rows \in CsvTexts :
          /\ planetsData' = IF Len(rows) + 1 > 1 THEN loadData("csv", rows)
                            ELSE planetsData
          /\ exoplanetSystems' = exoplanetSystems
          /\ LoadFinally("csv")
  /\ UNCHANGED <<dataLoads, sessionStorage, uploadPage>>
  /\ ViewsIdle

\* ------------------------------------------------------------ the upload page
\* A file the user picks or drops: its MIME type, the extension of its
\* name, and what reading and parsing it comes to: text() rejects, the
\* parser throws, it yields no system, or it yields systems and planets.
Files ==
  [type : {"text/csv", "text/plain"}, extension : {"csv", "txt"},
   content : {"unreadable", "malformed", "no systems", "systems"}]

\* selectedFile.type !== 'text/csv' && !selectedFile.name.endsWith('.csv')
Rejected(f) == f.type # "text/csv" /\ f.extension # "csv"

SelectError == "Please select a valid CSV file"
DropError == "Please drop a valid CSV file"
NoSystemsError == "No valid exoplanet systems found in the CSV file"
ParseError == "Failed to parse CSV file"

\* The Upload component after its first render.
FreshUploadPage == [NoUploadPage EXCEPT !.open = TRUE]

\* handleUpload runs at most MaxUploads times on one page.
MaxUploads == 2

\* disabled={!file || isProcessing} of the upload button
UploadEnabled == uploadPage.file # <<>> /\ ~uploadPage.isProcessing

\* handleFileChange: the picker's change event, with a file or with none.
handleFileChange(selected) ==
  IF selected = <<>> THEN uploadPage
  ELSE IF Rejected(selected[1])
  THEN [uploadPage EXCEPT !.error = SelectError, !.file = <<>>]
  ELSE [uploadPage EXCEPT !.file = selected, !.error = "null"]

\* handleDrop: the drop event, with a file or with none.
handleDrop(dropped) ==
  IF dropped = <<>> THEN uploadPage
  ELSE IF Rejected(dropped[1])
  THEN [uploadPage EXCEPT !.error = DropError]
  ELSE [uploadPage EXCEPT !.file = dropped, !.error = "null"]

\* The change event of the file picker.
HandleFileChange ==
  /\ uploadPage.open
  /\ \E selected \in {<<>>} \cup {<<f>> : f \in Files} :
       uploadPage' = handleFileChange(selected)
  /\ UNCHANGED <<exoplanetSystems, planetsData, dataLoads, loading, sessionStorage>>
  /\ ViewsIdle

\* The drop event of the drop zone.
HandleDrop ==
  /\ uploadPage.open
  /\ \E dropped \in {<<>>} \cup {<<f>> : f \in Files} :
       uploadPage' = handleDrop(dropped)
  /\ UNCHANGED <<exoplanetSystems, planetsData, dataLoads, loading, sessionStorage>>
  /\ ViewsIdle

\* handleUpload up to `await file.text()', called by a click on the upload
\* button; `file' is the one of the render the callback was made in.
HandleUpload ==
  /\ uploadPage.open
  /\ UploadEnabled
  /\ uploadPage.uploads < MaxUploads
  /\ uploadPage' = [uploadPage EXCEPT !.isProcessing = TRUE, !.error = "null",
                                      !.pc = "awaitText",
                                      !.reading = uploadPage.file,
                                      !.uploads = @ + 1]
  /\ UNCHANGED <<exoplanetSystems, planetsData, dataLoads, loading, sessionStorage>>
  /\ ViewsIdle

\* parseExoplanetCSV(text) for a text it does not throw on.
parseExoplanetCSV(content) ==
  IF content = "systems"
  THEN [systems |-> UploadedSystems, planets |-> UploadedPlanets]
  ELSE [systems |-> <<>>, planets |-> <<>>]

\* sessionStorage.setItem(key, value); it throws a QuotaExceededError, and
\* stores nothing, when the value does not fit.
setItem(storage, key, value) == [storage EXCEPT ![key] = <<value>>]

\* The rest of handleUpload, once file.text() has settled.  `written' is the
\* number of setItem calls that return before one throws.
HandleUploadSettled ==
  /\ uploadPage.open
  /\ uploadPage.pc = "awaitText"
  /\ LET content == uploadPage.reading[1].content
         finished == [uploadPage EXCEPT !.pc = "idle", !.isProcessing = FALSE,
                                       !.reading = <<>>]
         caught == [finished EXCEPT !.error = ParseError]
     IN IF content \in {"unreadable", "malformed"}
        THEN uploadPage' = caught /\ UNCHANGED sessionStorage
        ELSE LET result == parseExoplanetCSV(content)
                 first == setItem(sessionStorage, "uploadedExoplanetSystems",
                                  JSONstringify(result.systems))
                 second == setItem(first, "uploadedPlanetsData",
                                   JSONstringify(result.planets))
             IN IF result.systems = <<>>
                THEN /\ uploadPage' = [finished EXCEPT !.error = NoSystemsError]
                     /\ UNCHANGED sessionStorage
                ELSE \/ /\ sessionStorage' = second
                        /\ uploadPage' =
                             [finished EXCEPT
                                !.previewData = <<[systemCount |-> Len(result.systems),
                                                   planetCount |-> Len(result.planets)]>>,
                                !.timers = @ + 1]
                     \/ /\ sessionStorage' \in {sessionStorage, first}
                        /\ uploadPage' = caught
  /\ UNCHANGED <<exoplanetSystems, planetsData, dataLoads, loading>>
  /\ ViewsIdle

\* The page at / is loaded: SystemNavigator is rendered for the first time.
LoadHome ==
  /\ uploadPage' = NoUploadPage
  /\ loading' = Mounted
  /\ exoplanetSystems' = <<>>
  /\ planetsData' = <<>>
  /\ dataLoads' = 0
  /\ UNCHANGED sessionStorage
  /\ ViewsIdle

\* setTimeout(() => { window.location.href = '/' }, 2000) fires.
RedirectFires == uploadPage.open /\ uploadPage.timers > 0 /\ LoadHome

\* The user leaves the upload page for /.
OpenHome == uploadPage.open /\ LoadHome

\* What an earlier visit may have left in sessionStorage.
Items(value) == {<<>>, <<EmptyString>>, <<NotJSON>>, <<JSONstringify(value)>>}

StoredBefore ==
  [uploadedExoplanetSystems : Items(SystemCatalog), uploadedPlanetsData : Items(Catalog)]

\* The upload page opened in a session, nothing of the views there yet.
InitData ==
  /\ currentView = "solar"
  /\ selectedSystem = Null
  /\ focusedPlanet = NoPlanet
  /\ isTransitioning = FALSE
  /\ animationFrameRef = Null
  /\ mainAnimationId = Null
  /\ starFocusedPlanet = NoPlanet
  /\ req = Null
  /\ cameraRef = Null
  /\ mounted = 1
  /\ cams = <<>>
  /\ rafPending = <<>>
  /\ rafRunning = <<>>
  /\ onSystemClickLog = <<>>
  /\ lastInput = NoInput
  /\ superseded = {}
  /\ stale = {}
  /\ inputs = MaxInputs
  /\ midFlight = 0
  /\ hoveredOrbit = NoPlanet
  /\ hoveredSystem = Null
  /\ pointer = NoPointer
  /\ exoplanetSystems = <<>>
  /\ planetsData = <<>>
  /\ dataLoads = 0
  /\ sceneObjects = NoObjects
  /\ orbitalPaths = NoPaths
  /\ solarObjects = NoSolarObjects
  /\ tickLog = <<>>
  /\ sessionStorage \in StoredBefore
  /\ loading = NotMounted
  /\ uploadPage = FreshUploadPage

LoadSteps ==
  \/ LoadDataStart
  \/ LoadSystemsSettled
  \/ LoadFetchSettled
  \/ LoadTextSettled

NextData ==
  \/ HandleFileChange
  \/ HandleDrop
  \/ HandleUpload
  \/ HandleUploadSettled
  \/ RedirectFires
  \/ OpenHome
  \/ LoadDataStart
  \/ LoadSystemsSettled
  \/ LoadFetchSettled
  \/ LoadTextSettled

SpecData == InitData /\ [][NextData]_vars

\* The promises loadData awaits settle, and the effect that calls it runs.
SpecLoad == SpecData /\ WF_vars(LoadSteps)

\* C37: loadData always finishes: once SystemNavigator is mounted isLoading
\* becomes false in the end, and it is false when loadData is done; if a
\* step of loadData threw, exoplanetSystems and planetsData are both empty,
\* also when the systems had been set before; and the uploaded data is used
\* only when sessionStorage holds both keys.
C37_LoadingFinishes ==
  /\ [](loading.pc = "done" => ~loading.isLoading)
  /\ [](loading.threw # "no" =>
          /\ loading.pc = "done"
          /\ exoplanetSystems = <<>>
          /\ planetsData = <<>>)
  /\ [](loading.source = "uploaded" =>
          /\ getItem("uploadedExoplanetSystems") # <<>>
          /\ getItem("uploadedPlanetsData") # <<>>)
  /\ (loading.pc # "none") ~> ~loading.isLoading

\* loadData is over after the fetch of the planets was rejected.
C37_Witness ==
  /\ loading.threw = "awaitFetch"
  /\ ~loading.isLoading
  /\ exoplanetSystems = <<>>
  /\ planetsData = <<>>

\* C38: when handleUpload finishes, isProcessing is false; it has changed
\* sessionStorage only if the parser yielded at least one system, and then
\* both items hold what the parser yielded; and when reading or parsing
\* threw or no system was found, an error is set, nothing is stored and no
\* redirect is scheduled.
C38_UploadStoresBothOrNothing ==
  [][(uploadPage.open /\ uploadPage.pc = "awaitText" /\ uploadPage'.open
        /\ uploadPage'.pc = "idle") =>
       LET content == uploadPage.reading[1].content
       IN /\ ~uploadPage'.isProcessing
          /\ sessionStorage' # sessionStorage =>
               /\ content = "systems"
               /\ sessionStorage'.uploadedExoplanetSystems =
                    <<JSONstringify(UploadedSystems)>>
               /\ sessionStorage'.uploadedPlanetsData =
                    <<JSONstringify(UploadedPlanets)>>
          /\ content # "systems" =>
               /\ uploadPage'.error # "null"
               /\ sessionStorage' = sessionStorage
               /\ uploadPage'.timers = uploadPage.timers]_vars

\* C39: while the page shows the error of a rejected file, no file is
\* selected and the upload button is disabled, whether the file came from
\* the picker or was dropped, and whatever was selected before.
C39_RejectionClearsFile ==
  uploadPage.error \in {SelectError, DropError} =>
    (uploadPage.file = <<>> /\ ~UploadEnabled)

====
